---- MODULE Spec2Model ----
(***************************************************************************)
(* Model of the optimisation orchestration layer of LumaSalseModel_trail:  *)
(* OptimizationMonitor, ConstraintHandler, grid_search_optimizer and       *)
(* EnsembleOptimizer.                                                      *)
(*                                                                         *)
(* Scores are integers; -float('inf') is the sentinel NegInf, which is     *)
(* below every score the model draws.  Parameter values handled by the     *)
(* ConstraintHandler are exact rationals [n |-> numerator, d |-> denom].   *)
(***************************************************************************)
EXTENDS Integers, Sequences, FiniteSets, TLC

VARIABLES
    monitor,    \* an OptimizationMonitor object fed by an arbitrary caller
    ch,         \* a ConstraintHandler with its registered constraints and one repair scenario
    gs,         \* one call of grid_search_optimizer: its inputs and what it returned
    eo,         \* an EnsembleOptimizer object: objective, individual_results, ensemble_result
    call,       \* the optimize call in progress on eo, and how the last one ended
    rz,         \* one assignment handed to the RealisticConstraintHandler and the enhanced evaluator
    runs,       \* the strategy runs of one parallel optimize call, evaluation by evaluation
    heap,       \* the OptimizationMonitor objects those runs created, with the runs that touched each
    sel,        \* one call of AlgorithmSelector.recommend_algorithm: its arguments and its outcome
    ga          \* one call of genetic_algorithm_optimizer, generation by generation

vars == <<monitor, ch, gs, eo, call, rz, runs, heap, sel, ga>>

(***************************************************************************)
(* Bounds of the model                                                     *)
(***************************************************************************)
MaxPatience == 3        \* patience is drawn from 1..MaxPatience
MaxRecords == 5         \* record_iteration calls per monitored run
MaxScore == 2           \* best/current scores are drawn from 0..MaxScore
MaxValueNum == 3        \* parameter values are k/ValueDen, k in -1..MaxValueNum
ValueDen == 2
MaxDistConstraints == 1 \* registered sum-to-target constraints
MaxGridDims == 2        \* dimensions of the space handed to grid_search_optimizer
MaxPoints == 11                 \* points_per_dim is drawn from 1..MaxPoints
MaxBudget == 100                \* the largest total_budget of an optimize call
MaxCalls == 2                   \* optimize calls on one EnsembleOptimizer
MaxSelDims == 4                 \* parameters of a space handed to recommend_algorithm
MaxPopulation == 3              \* population_size of a genetic_algorithm_optimizer call
MaxGenerations == 2             \* n_generations of a genetic_algorithm_optimizer call
MaxBeyond == 2                  \* an identifier lies up to MaxBeyond fifths of its range beyond a bound

(***************************************************************************)
(* Program constants                                                       *)
(***************************************************************************)
NegInf == -1000000              \* -float('inf')
MinImprovementNum == 1          \* min_improvement = 1e-4 = 1/10000
MinImprovementDen == 10000
ConvergenceWindow == 5          \* _check_convergence looks at the last 5 improvements
ToleranceDen == 1000000         \* constraint_tolerance = 1e-6 = 1/1000000
ScoreDen == 540000              \* unit of the suitability scores: 1.0 = ScoreDen/ScoreDen

(***************************************************************************)
(* Generic helpers                                                         *)
(***************************************************************************)
Max2(a, b) == IF a >= b THEN a ELSE b
Min2(a, b) == IF a <= b THEN a ELSE b
Abs(a) == IF a < 0 THEN -a ELSE a

RECURSIVE SeqSum(_)
SeqSum(s) == IF s = <<>> THEN 0 ELSE Head(s) + SeqSum(Tail(s))

LastN(s, n) == IF Len(s) <= n THEN s ELSE SubSeq(s, Len(s) - n + 1, Len(s))

(***************************************************************************)
(* OptimizationMonitor                                                     *)
(***************************************************************************)
\* OptimizationMonitor.__init__: the state of a freshly constructed monitor.
NewMonitor(patience) ==
    [ patience |-> patience,
      started |-> FALSE,                 \* start_time is None
      history |-> <<>>,                  \* one entry per record_iteration call
      best_score_so_far |-> NegInf,
      no_improvement_count |-> 0,
      convergence_detected |-> FALSE,
      early_stop_suggested |-> FALSE ]

\* a reset that clears the history and the counters but leaves the two flags
ResetHistoryKeepingFlags(m) ==
    [ m EXCEPT !.history = <<>>,
               !.best_score_so_far = NegInf,
               !.no_improvement_count = 0 ]

\* OptimizationMonitor.reset_history
ResetHistoryOp(m) ==
    [ m EXCEPT !.history = <<>>,
               !.best_score_so_far = NegInf,
               !.no_improvement_count = 0,
               !.convergence_detected = FALSE,
               !.early_stop_suggested = FALSE ]

\* OptimizationMonitor.start_monitoring
StartMonitoringOp(m) == [ ResetHistoryOp(m) EXCEPT !.started = TRUE ]

\* improvement = best_score - best_score_so_far if best_score_so_far != -inf else 0
ImprovementOf(m, best_score) ==
    IF m.best_score_so_far # NegInf
    THEN (IF best_score = NegInf THEN NegInf ELSE best_score - m.best_score_so_far)
    ELSE 0

\* improvement > self.min_improvement
ExceedsMinImprovement(improvement) ==
    /\ improvement # NegInf
    /\ improvement * MinImprovementDen > MinImprovementNum

\* np.mean(recent_improvements) < self.min_improvement
MeanBelowMinImprovement(imps) ==
    \/ \E i \in 1..Len(imps) : imps[i] = NegInf
    \/ SeqSum(imps) * MinImprovementDen < MinImprovementNum * Len(imps)

\* OptimizationMonitor._check_convergence
CheckConvergence(m) ==
    IF Len(m.history) < ConvergenceWindow
    THEN m
    ELSE LET recent == LastN([i \in 1..Len(m.history) |-> m.history[i].improvement],
                             ConvergenceWindow)
         IN IF MeanBelowMinImprovement(recent)
            THEN [m EXCEPT !.convergence_detected = TRUE]
            ELSE m

\* the comparison of _check_early_stop: self.no_improvement_count >= self.patience
PatienceReachedStrict(count, patience) == count > patience
PatienceReached(count, patience) == count >= patience

\* OptimizationMonitor._check_early_stop
CheckEarlyStop(m) ==
    IF PatienceReached(m.no_improvement_count, m.patience)
    THEN [m EXCEPT !.early_stop_suggested = TRUE]
    ELSE m

\* OptimizationMonitor.record_iteration
RecordIterationOp(m0, iteration, current_score, best_score) ==
    LET m1 == IF m0.started THEN m0 ELSE StartMonitoringOp(m0)
        improvement == ImprovementOf(m1, best_score)
        m2 == [ m1 EXCEPT !.history = Append(@, [ iteration |-> iteration,
                                                   current_score |-> current_score,
                                                   best_score |-> best_score,
                                                   improvement |-> improvement ]) ]
        m3 == IF ExceedsMinImprovement(improvement)
              THEN [ m2 EXCEPT !.no_improvement_count = 0,
                               !.best_score_so_far = best_score ]
              ELSE [ m2 EXCEPT !.no_improvement_count = @ + 1 ]
    IN CheckEarlyStop(CheckConvergence(m3))

\* OptimizationMonitor.should_stop_early
ShouldStopEarly(m) == m.early_stop_suggested

\* OptimizationMonitor.get_convergence_status
GetConvergenceStatus(m) ==
    [ converged |-> m.convergence_detected,
      early_stop_suggested |-> m.early_stop_suggested,
      no_improvement_count |-> m.no_improvement_count,
      best_score |-> m.best_score_so_far,
      iterations_completed |-> Len(m.history) ]


(***************************************************************************)
(* Exact rationals                                                         *)
(***************************************************************************)
RECURSIVE GCD(_, _)
GCD(a, b) == IF b = 0 THEN a ELSE GCD(b, a % b)

Rat(n, d) ==
    [ n |-> (IF d < 0 THEN -n ELSE n) \div GCD(Abs(n), Abs(d)),
      d |-> Abs(d) \div GCD(Abs(n), Abs(d)) ]

RAdd(x, y) == Rat(x.n * y.d + y.n * x.d, x.d * y.d)
RSub(x, y) == Rat(x.n * y.d - y.n * x.d, x.d * y.d)
RMul(x, y) == Rat(x.n * y.n, x.d * y.d)
RDiv(x, y) == Rat(x.n * y.d, x.d * y.n)
RLt(x, y) == x.n * y.d < y.n * x.d
RAbs(x) == [ n |-> Abs(x.n), d |-> x.d ]
RMax(x, y) == IF RLt(x, y) THEN y ELSE x      \* Python max(x, y): x unless y > x
RMin(x, y) == IF RLt(y, x) THEN y ELSE x      \* Python min(x, y): x unless y < x
RZero == Rat(0, 1)

RECURSIVE RSum(_)
RSum(s) == IF s = <<>> THEN RZero ELSE RAdd(Head(s), RSum(Tail(s)))

(***************************************************************************)
(* ConstraintHandler                                                       *)
(*                                                                         *)
(* An assignment is a function from the identifiers it holds to rationals. *)
(* boundary_constraints is a function from the constrained identifiers to  *)
(* <<min_val, max_val>>; distribution_constraints is a sequence of         *)
(* [params |-> sequence of identifiers, target_sum |-> rational].          *)
(***************************************************************************)
\* self.constraint_tolerance
Tolerance == Rat(1, ToleranceDen)

\* _get_nested_param_value raises KeyError
Present(params, name) == name \in DOMAIN params

\* _set_nested_param_value
SetParam(params, name, value) ==
    [ k \in (DOMAIN params) \cup {name} |-> IF k = name THEN value ELSE params[k] ]

\* max(min_val, min(max_val, value))
Clamp(range, value) == RMax(range[1], RMin(range[2], value))

\* value < min_val or value > max_val
OutOfRange(range, value) == RLt(value, range[1]) \/ RLt(range[2], value)

\* ConstraintHandler._repair_boundary_constraints
RepairBoundaryConstraints(boundary, params) ==
    [ k \in DOMAIN params |->
        IF k \in DOMAIN boundary /\ OutOfRange(boundary[k], params[k])
        THEN Clamp(boundary[k], params[k])
        ELSE params[k] ]

\* the identifiers of a constraint that the assignment holds, in constraint order
RECURSIVE PresentNames(_, _)
PresentNames(params, names) ==
    IF names = <<>> THEN <<>>
    ELSE IF Present(params, Head(names))
         THEN <<Head(names)>> \o PresentNames(params, Tail(names))
         ELSE PresentNames(params, Tail(names))

ValuesOf(params, names) == [ i \in 1..Len(names) |-> params[names[i]] ]

\* abs(current_sum - target_sum) > self.constraint_tolerance
SumOff(current_sum, target_sum) == RLt(Tolerance, RAbs(RSub(current_sum, target_sum)))

\* the proportional branch: new_value = param_values[i] * scale_factor, clamped
\* to the identifier's own boundary when it has one
RECURSIVE ScaleGroup(_, _, _, _, _)
ScaleGroup(boundary, params, names, values, scale_factor) ==
    IF names = <<>> THEN params
    ELSE LET name == Head(names)
             scaled == RMul(Head(values), scale_factor)
             new_value == IF name \in DOMAIN boundary
                          THEN Clamp(boundary[name], scaled)
                          ELSE scaled
         IN ScaleGroup(boundary, SetParam(params, name, new_value),
                       Tail(names), Tail(values), scale_factor)

\* the uniform branch: avg_value is re-assigned by each clamp and carried on
RECURSIVE SpreadGroup(_, _, _, _)
SpreadGroup(boundary, params, names, avg_value) ==
    IF names = <<>> THEN params
    ELSE LET name == Head(names)
             avg == IF name \in DOMAIN boundary
                    THEN Clamp(boundary[name], avg_value)
                    ELSE avg_value
         IN SpreadGroup(boundary, SetParam(params, name, avg), Tail(names), avg)

\* the body of the loop of _repair_distribution_constraints for one constraint
RepairOneDistribution(boundary, params, constraint) ==
    LET param_names == PresentNames(params, constraint.params)
        param_values == ValuesOf(params, param_names)
        current_sum == RSum(param_values)
        target_sum == constraint.target_sum
    IN IF Len(param_names) = 0 THEN params
       ELSE IF ~SumOff(current_sum, target_sum) THEN params
       ELSE IF RLt(RZero, current_sum)
            THEN ScaleGroup(boundary, params, param_names, param_values,
                            RDiv(target_sum, current_sum))
            ELSE SpreadGroup(boundary, params, param_names,
                             RDiv(target_sum, Rat(Len(param_names), 1)))

\* ConstraintHandler._repair_distribution_constraints
RECURSIVE RepairDistributionConstraints(_, _, _)
RepairDistributionConstraints(boundary, dist, params) ==
    IF dist = <<>> THEN params
    ELSE RepairDistributionConstraints(boundary, Tail(dist),
             RepairOneDistribution(boundary, params, Head(dist)))

\* ConstraintHandler._check_boundary_constraints: the violating identifiers
CheckBoundaryConstraints(boundary, params) ==
    { k \in DOMAIN boundary : Present(params, k) /\ OutOfRange(boundary[k], params[k]) }

\* ConstraintHandler._check_distribution_constraints: the violated constraints
CheckDistributionConstraints(dist, params) ==
    { i \in 1..Len(dist) :
        /\ \A j \in 1..Len(dist[i].params) : Present(params, dist[i].params[j])
        /\ SumOff(RSum(ValuesOf(params, dist[i].params)), dist[i].target_sum) }

\* constraint["function"](params) for a relationship constraint over two
\* identifiers: the first is to be at least the second, as in
\* price_logic_constraint
RelationHolds(constraint, params) ==
    ~RLt(params[constraint.params[1]], params[constraint.params[2]])

\* ConstraintHandler._check_relationship_constraints: the violated constraints
CheckRelationshipConstraints(rel, params) ==
    { i \in 1..Len(rel) :
        /\ \A j \in 1..Len(rel[i].params) : Present(params, rel[i].params[j])
        /\ ~RelationHolds(rel[i], params) }

\* ConstraintHandler.validate_params: is_valid
IsValid(boundary, dist, params) ==
    /\ CheckBoundaryConstraints(boundary, params) = {}
    /\ CheckDistributionConstraints(dist, params) = {}

\* ConstraintHandler.repair_params
RepairParams(boundary, dist, params) ==
    RepairDistributionConstraints(boundary, dist,
        RepairBoundaryConstraints(boundary, params))

\* LumaConstraintHandler.validate_and_repair_optimization_params
ValidateAndRepair(boundary, dist, params) ==
    IF ~IsValid(boundary, dist, params)
    THEN RepairParams(boundary, dist, params)
    ELSE params

(***************************************************************************)
(* grid_search_optimizer                                                   *)
(*                                                                         *)
(* A parameter space is a sequence of [name, min_val, max_val] in the      *)
(* order of the dict; a point is a sequence of rationals in that order.    *)
(* The objective evaluator is external: an objective is a record that      *)
(* Evaluate turns into a deterministic, pure score function of the point.  *)
(***************************************************************************)
\* np.linspace(min_val, max_val, points_per_dim), or [min_val] for an empty range
GridValues(range, points_per_dim) ==
    IF ~RLt(range.min_val, range.max_val) THEN << range.min_val >>
    ELSE IF points_per_dim = 1 THEN << range.min_val >>
    ELSE [ k \in 1..points_per_dim |->
             RAdd(range.min_val,
                  RDiv(RMul(Rat(k - 1, 1), RSub(range.max_val, range.min_val)),
                       Rat(points_per_dim - 1, 1))) ]

\* list(itertools.product(*param_value_grids)): the last dimension varies fastest
RECURSIVE Product(_)
Product(grids) ==
    IF grids = <<>> THEN << <<>> >>
    ELSE LET rest == Product(Tail(grids))
             first == Head(grids)
         IN [ i \in 1..(Len(first) * Len(rest)) |->
                << first[((i - 1) \div Len(rest)) + 1] >> \o rest[((i - 1) % Len(rest)) + 1] ]

\* the candidates a "partial" evaluator cannot score: first coordinate below 1/2
Unscorable(objective, point) ==
    objective.kind = "partial" /\ point # <<>> /\ RLt(point[1], Rat(1, 2))

\* the external objective: run_model_with_params returns the metric, or -inf
\* when the evaluator fails
Evaluate(objective, point) ==
    IF objective.kind = "failing" \/ Unscorable(objective, point) THEN NegInf
    ELSE IF point = <<>> THEN objective.base       \* no override: the base parameters
    ELSE LET sq(i) == LET v == RSub(point[i], Rat(objective.peak, 1))
                          w == RMul(v, v)
                      IN w.n \div w.d
         IN objective.offset - SeqSum([ i \in 1..Len(point) |-> sq(i) ])

\* dict(zip(param_names, current_combination_values))
PointAssignment(space, point) ==
    [ k \in { space[i].name : i \in 1..Len(space) } |->
        point[CHOOSE i \in 1..Len(space) : space[i].name = k] ]

\* LumaConstraintHandler(params_to_optimize_ranges).boundary_constraints
SpaceBoundary(space) ==
    [ k \in { space[i].name : i \in 1..Len(space) } |->
        LET r == space[CHOOSE i \in 1..Len(space) : space[i].name = k]
        IN << r.min_val, r.max_val >> ]

\* the point evaluated for a combination: the combination after
\* validate_and_repair_optimization_params
RepairedPoint(space, point) ==
    LET repaired == ValidateAndRepair(SpaceBoundary(space), <<>>,
                                      PointAssignment(space, point))
    IN [ i \in 1..Len(space) |-> repaired[space[i].name] ]

\* monitor = OptimizationMonitor(patience=max(5, total_combinations // 20))
GridPatience(total_combinations) == Max2(5, total_combinations \div 20)

\* if monitor.should_stop_early(): break
GridStops(m) == ShouldStopEarly(m)

\* the loop variables once params_to_update has been scored current_score:
\* results_list.append, the update of the best, monitor.record_iteration
GridScored(st, i, params_to_update, current_score) ==
    [ st EXCEPT
        !.monitor = RecordIterationOp(@, i + 1, current_score,
                                      Max2(st.best_score, current_score)),
        !.results_list = Append(@, [ point |-> params_to_update,
                                     score |-> current_score ]),
        !.best_score = IF current_score > st.best_score THEN current_score ELSE @,
        !.best_params = IF current_score > st.best_score THEN params_to_update ELSE @,
        !.found = @ \/ current_score > st.best_score ]

\* current_score = run_model_with_params(base_params, params_to_update, metric)
GridEvaluated(objective, i, st, params_to_update) ==
    GridScored(st, i, params_to_update, Evaluate(objective, params_to_update))

\* one pass of the for loop of grid_search_optimizer, up to the early-stop test
GridIteration(space, objective, combos, i, st) ==
    GridEvaluated(objective, i, st, RepairedPoint(space, combos[i + 1]))

RECURSIVE GridLoop(_, _, _, _, _)
\* the rest of the loop after pass i left the loop variables st1: the
\* early-stop test, progress_callback and the passes that follow
GridAfter(space, objective, combos, i, st1) ==
    IF GridStops(st1.monitor) THEN st1
    ELSE GridLoop(space, objective, combos, i + 1,
                  [ st1 EXCEPT !.progress = Append(@, [ done |-> i + 1,
                                                         total |-> Len(combos) ]) ])

\* the for loop of grid_search_optimizer from index i (0-based) on; st carries
\* best_score, best_params_combination, results_list, the monitor and the
\* values handed to progress_callback
GridLoop(space, objective, combos, i, st) ==
    IF i >= Len(combos) THEN st
    ELSE GridAfter(space, objective, combos, i,
                   GridIteration(space, objective, combos, i, st))

\* the loop variables before the first iteration
GridStart(combos) ==
    [ best_score |-> NegInf,
      best_params |-> <<>>,
      found |-> FALSE,            \* best_params_combination is no longer {}
      results_list |-> <<>>,
      progress |-> <<>>,
      monitor |-> NewMonitor(GridPatience(Len(combos))) ]

\* grid_search_optimizer(base_params, space, metric, points_per_dim) with the
\* monitor the caller passes (monitor=None creates GridPatience's monitor)
GridSearchOptimizer(space, objective, points_per_dim) ==
    LET grids == [ i \in 1..Len(space) |-> GridValues(space[i], points_per_dim) ]
        combos == Product(grids)
        st0 == GridStart(combos)
    IN IF space = <<>>
       THEN [ st0 EXCEPT !.monitor = NewMonitor(1) ]
       ELSE GridLoop(space, objective, combos, 0, st0)

IdleGrid == [ phase |-> "idle" ]

(***************************************************************************)
(* AlgorithmSelector.recommend_algorithm                                   *)
(*                                                                         *)
(* Suitability scores are exact multiples of 1/ScoreDen.                   *)
(***************************************************************************)
Algorithms == << "grid_search", "bayesian_optimization", "genetic_algorithm" >>

\* algorithm_profiles[algo]["best_dimensions"] and ["min_budget"]
Profile(algo) ==
    CASE algo = "grid_search" -> [ dim_min |-> 1, dim_max |-> 3, min_budget |-> 27 ]
      [] algo = "bayesian_optimization" -> [ dim_min |-> 2, dim_max |-> 10, min_budget |-> 20 ]
      [] algo = "genetic_algorithm" -> [ dim_min |-> 3, dim_max |-> 20, min_budget |-> 100 ]

\* 0.4 * max(0.1, math.exp(-0.3 * k)) in units of 1/ScoreDen, rounded
DimDecay(k) ==
    CASE k = 1 -> 160017 [] k = 2 -> 118543 [] k = 3 -> 87819 [] k = 4 -> 65058
      [] k = 5 -> 48196 [] k = 6 -> 35705 [] k = 7 -> 26451 [] OTHER -> 21600

\* the budget and user_preferences arguments when they are None
NoBudget == [ given |-> FALSE, value |-> 0 ]

NoPreferences == [ prefer_fast |-> FALSE, prefer_accurate |-> FALSE ]

\* AlgorithmSelector._calculate_algorithm_score
CalculateAlgorithmScore(algo, num_params, integer_params, budget, user_preferences) ==
    LET pr == Profile(algo)
        dim == IF pr.dim_min <= num_params /\ num_params <= pr.dim_max THEN 216000
               ELSE IF num_params < pr.dim_min THEN 151200
               ELSE DimDecay(num_params - pr.dim_max)
        bud == IF ~budget.given THEN 129600
               ELSE IF budget.value >= pr.min_budget
               THEN Min2(162000, (162000 * budget.value) \div (pr.min_budget * 2))
               ELSE Max2(16200, (162000 * budget.value) \div pr.min_budget)
        typ == IF algo = "bayesian_optimization"
                  /\ integer_params > num_params - integer_params
               THEN 64800 ELSE 108000
        fast == IF user_preferences.prefer_fast /\ algo = "genetic_algorithm"
                THEN 37800 ELSE 54000
        pref == IF user_preferences.prefer_accurate /\ algo = "grid_search"
                THEN 64800 ELSE fast
    IN Min2(dim + bud + typ + pref, ScoreDen)

\* AlgorithmSelector._calculate_algorithm_score with user_preferences = None
AlgorithmScore(algo, num_params, integer_params, budget) ==
    CalculateAlgorithmScore(algo, num_params, integer_params,
                            [ given |-> TRUE, value |-> budget ], NoPreferences)

\* recommendations.sort(key=score, reverse=True): a stable sort
RECURSIVE InsertByScore(_, _)
InsertByScore(sorted, rec) ==
    IF sorted = <<>> THEN << rec >>
    ELSE IF Head(sorted).score >= rec.score
         THEN << Head(sorted) >> \o InsertByScore(Tail(sorted), rec)
         ELSE << rec >> \o sorted

RECURSIVE SortByScore(_)
SortByScore(recs) ==
    IF recs = <<>> THEN <<>>
    ELSE InsertByScore(SortByScore(SubSeq(recs, 1, Len(recs) - 1)), recs[Len(recs)])

\* AlgorithmSelector.recommend_algorithm
RecommendAlgorithm(num_params, integer_params, budget) ==
    SortByScore([ i \in 1..Len(Algorithms) |->
        [ algorithm |-> Algorithms[i],
          score |-> AlgorithmScore(Algorithms[i], num_params, integer_params, budget) ] ])

\* analyze_problem_characteristics: search_space_size, the product of the
\* widths max_val - min_val of a space given as [name, min_val, max_val]
RECURSIVE SearchSpaceSize(_)
SearchSpaceSize(param_ranges) ==
    IF param_ranges = <<>> THEN 1
    ELSE (Head(param_ranges).max_val - Head(param_ranges).min_val)
         * SearchSpaceSize(Tail(param_ranges))

\* _is_likely_integer_param
IsLikelyIntegerParam(range) ==
    \/ range.name = "new_clients_per_half_year"
    \/ range.int_typed /\ range.max_val - range.min_val < 20

\* _calculate_complexity_score: math.log10(search_space_size) raises
\* ValueError unless search_space_size > 0
ComplexityRaises(param_ranges) == SearchSpaceSize(param_ranges) <= 0

\* AlgorithmSelector.recommend_algorithm on a space, a budget or None and
\* user_preferences
RecommendAlgorithmCall(param_ranges, budget, user_preferences) ==
    LET num_params == Len(param_ranges)
        integer_params ==
            Cardinality({ i \in 1..num_params : IsLikelyIntegerParam(param_ranges[i]) })
    IN IF ComplexityRaises(param_ranges)
       THEN [ raised |-> TRUE, recommendations |-> <<>> ]
       ELSE [ raised |-> FALSE,
              recommendations |->
                 SortByScore([ i \in 1..Len(Algorithms) |->
                    [ algorithm |-> Algorithms[i],
                      score |-> CalculateAlgorithmScore(Algorithms[i], num_params,
                                     integer_params, budget, user_preferences) ] ]) ]

IdleSelector == [ phase |-> "idle" ]

(***************************************************************************)
(* EnsembleOptimizer: budget allocation                                    *)
(*                                                                         *)
(* An allocation is the dict in insertion order: a sequence of             *)
(* [algorithm, budget].                                                    *)
(***************************************************************************)
RECURSIVE ScoreSum(_)
ScoreSum(recs) == IF recs = <<>> THEN 0 ELSE Head(recs).score + ScoreSum(Tail(recs))

SelectRecs(recs, threshold) ==
    LET keep == { i \in 1..Len(recs) : recs[i].score * 10 > threshold * ScoreDen }
        F[i \in 0..Len(recs)] ==
            IF i = 0 THEN <<>>
            ELSE IF i \in keep THEN Append(F[i-1], recs[i]) ELSE F[i-1]
    IN F[Len(recs)]

\* EnsembleOptimizer._auto_allocate_budget
AutoAllocateBudget(recs, total_budget) ==
    LET top == SubSeq(recs, 1, Min2(3, Len(recs)))
    IN IF Len(top) = 1
       THEN << [ algorithm |-> top[1].algorithm, budget |-> total_budget ] >>
       ELSE IF Len(top) = 2
       THEN [ i \in 1..2 |->
                [ algorithm |-> top[i].algorithm,
                  budget |-> Max2(20, (total_budget * top[i].score) \div ScoreSum(top)) ] ]
       ELSE LET best == (total_budget * 6) \div 10
                remaining == total_budget - best
            IN [ i \in 1..3 |->
                   [ algorithm |-> top[i].algorithm,
                     budget |-> IF i = 1 THEN best ELSE remaining \div 2 ] ]

\* EnsembleOptimizer._equal_allocate_budget
EqualAllocateBudget(recs, total_budget) ==
    LET suitable0 == SelectRecs(recs, 4)
        num0 == Min2(3, Len(suitable0))
        suitable == IF num0 = 0 THEN SubSeq(recs, 1, 1) ELSE suitable0
        num == IF num0 = 0 THEN 1 ELSE num0
    IN [ i \in 1..Min2(num, Len(suitable)) |->
           [ algorithm |-> suitable[i].algorithm, budget |-> total_budget \div num ] ]

\* EnsembleOptimizer._weighted_allocate_budget
WeightedAllocateBudget(recs, total_budget) ==
    LET suitable0 == SelectRecs(recs, 3)
        suitable == IF suitable0 = <<>> THEN SubSeq(recs, 1, 1) ELSE suitable0
    IN [ i \in 1..Len(suitable) |->
           [ algorithm |-> suitable[i].algorithm,
             budget |-> Max2(15, (total_budget * suitable[i].score) \div ScoreSum(suitable)) ] ]

\* EnsembleOptimizer._sequential_allocate_budget
SequentialAllocateBudget(recs, total_budget) ==
    << [ algorithm |-> recs[1].algorithm, budget |-> total_budget ] >>

\* EnsembleOptimizer._allocate_budget
AllocateBudget(recs, total_budget, strategy) ==
    CASE strategy = "auto" -> AutoAllocateBudget(recs, total_budget)
      [] strategy = "equal" -> EqualAllocateBudget(recs, total_budget)
      [] strategy = "weighted" -> WeightedAllocateBudget(recs, total_budget)
      [] strategy = "sequential" -> SequentialAllocateBudget(recs, total_budget)

(***************************************************************************)
(* EnsembleOptimizer: one strategy run                                     *)
(*                                                                         *)
(* A run's raw outcome is [raised, best_params, best_score, all_results,   *)
(* evals, reports, numpy]: all_results is len(all_results), evals the      *)
(* number of run_model_with_params calls the run made, reports the         *)
(* iteration numbers its progress wrapper handed to the run's monitor and  *)
(* numpy tells whether best_score is a numpy float.                        *)
(***************************************************************************)
RECURSIVE Pow(_, _)
Pow(b, e) == IF e = 0 THEN 1 ELSE b * Pow(b, e - 1)

\* int(budget ** (1 / num_params))
FloorRoot(budget, num_params) ==
    CHOOSE r \in 0..budget : Pow(r, num_params) <= budget /\ budget < Pow(r + 1, num_params)

RaisedRun(evals) ==
    [ raised |-> TRUE, best_params |-> <<>>, best_score |-> NegInf, all_results |-> 0,
      evals |-> evals, reports |-> <<>>, numpy |-> FALSE ]

\* EnsembleOptimizer._run_grid_search: grid_search_optimizer without the run's
\* monitor; the wrapper reports int(progress * budget)
EnsemblePointsPerDim(space, budget) == Min2(Max2(2, FloorRoot(budget, Len(space))), 10)

\* what _run_grid_search returns and reports, given what grid_search_optimizer did
GridSearchReturned(out, budget) ==
    [ raised |-> FALSE,
      best_params |-> IF out.found THEN out.best_params ELSE <<>>,
      best_score |-> out.best_score,
      all_results |-> Len(out.results_list),
      evals |-> Len(out.results_list),
      reports |-> [ i \in 1..Len(out.progress) |->
                      (out.progress[i].done * budget) \div out.progress[i].total ],
      numpy |-> FALSE ]

RunGridSearch(space, budget, objective) ==
    GridSearchReturned(
        GridSearchOptimizer(space, objective, EnsemblePointsPerDim(space, budget)),
        budget)

\* bayesian_optimizer reads the undefined name points_per_dim for a range of
\* two ints narrower than 20
BayesNameError(int_typed) == int_typed

\* EnsembleOptimizer._run_bayesian_optimization; best is the point gp_minimize
\* reports as result.x, raises tells that the call raises
RunBayesianOptimization(space, int_typed, budget, objective, best, raises) ==
    LET n_iterations == Min2(budget, 100)
        n_initial_points == Min2(n_iterations \div 3, 20)
    IN IF raises THEN RaisedRun(0)
       ELSE [ raised |-> FALSE,
              best_params |-> best,
              best_score |-> Evaluate(objective, best),
              all_results |-> n_iterations,
              evals |-> n_iterations,
              reports |-> [ k \in 1..n_iterations |-> k ],
              numpy |-> TRUE ]

\* gp_minimize needs n_initial_points > 0; a sentinel score cannot be fitted
BayesMustRaise(int_typed, budget) ==
    BayesNameError(int_typed) \/ Min2(Min2(budget, 100) \div 3, 20) <= 0

BayesMayRaise(int_typed, budget, objective) ==
    BayesMustRaise(int_typed, budget) \/ objective.kind \in { "failing", "partial" }

\* population_size and n_generations of EnsembleOptimizer._run_genetic_algorithm
GAPopulationSize(budget) == Min2(50, Max2(20, budget \div 10))
GAGenerations(budget) == budget \div GAPopulationSize(budget)

\* genetic_algorithm_optimizer: the initial population is evaluated, each
\* generation re-evaluates the changed offspring and updates the hall of fame;
\* best is hof[0], which does not exist when no generation ran
RunGeneticAlgorithm(space, budget, objective, best, reevaluated) ==
    LET population_size == GAPopulationSize(budget)
        n_generations == GAGenerations(budget)
    IN IF n_generations = 0 THEN RaisedRun(population_size)
       ELSE [ raised |-> FALSE,
              best_params |-> best,
              best_score |-> Evaluate(objective, best),
              all_results |-> population_size + reevaluated,
              evals |-> population_size + reevaluated,
              reports |-> [ g \in 1..(n_generations + 1) |-> g - 1 ],
              numpy |-> FALSE ]

\* the progress wrappers: monitor.record_iteration(it, 0, monitor.best_score_so_far)
RECURSIVE WrapperRecords(_, _)
WrapperRecords(m, reports) ==
    IF reports = <<>> THEN m
    ELSE LET recorded == RecordIterationOp(m, Head(reports), 0, m.best_score_so_far)
         IN IF Len(recorded.history) > 0
            THEN WrapperRecords(recorded, Tail(reports))
            ELSE recorded

\* self.constraint_handler = LumaConstraintHandler(): its constraints name
\* none of the identifiers of the space
EnsembleRepair(space, point) ==
    LET repaired == ValidateAndRepair(<<>>, <<>>, PointAssignment(space, point))
    IN [ i \in 1..Len(space) |-> repaired[space[i].name] ]

NoResult == [ algorithm |-> "None" ]

\* the iteration numbers of the records of a monitor, in recording order
IterationsOf(m) == [ i \in 1..Len(m.history) |-> m.history[i].iteration ]

\* EnsembleOptimizer._run_single_algorithm, given the raw outcome of the
\* algorithm function; run is the number of the optimize call; recorded keeps
\* what the run's monitor was handed
RunSingleAlgorithm(algorithm, space, budget, raw, run) ==
    LET m0 == StartMonitoringOp(NewMonitor(Max2(5, budget \div 10)))
        m == WrapperRecords(m0, raw.reports)
    IN [ algorithm |-> algorithm,
         best_params |-> IF raw.best_params # <<>>
                         THEN EnsembleRepair(space, raw.best_params) ELSE <<>>,
         best_score |-> raw.best_score,
         iterations_used |-> raw.all_results,
         convergence_info |-> GetConvergenceStatus(m),
         recorded |-> IterationsOf(m),
         numpy |-> raw.numpy,
         run |-> run ]

(***************************************************************************)
(* EnsembleOptimizer: fusion                                               *)
(*                                                                         *)
(* individual_results is the dict in insertion order: a sequence of        *)
(* results, at most one per algorithm.                                     *)
(***************************************************************************)
\* a pick that ignores the scores
BestResultOfLast(results) == results[Len(results)]

\* self.individual_results[algorithm] = result
StoreResult(results, result) ==
    IF \E i \in 1..Len(results) : results[i].algorithm = result.algorithm
    THEN [ i \in 1..Len(results) |->
             IF results[i].algorithm = result.algorithm THEN result ELSE results[i] ]
    ELSE Append(results, result)

BestResultOfFirst(results) == results[1]

\* max(self.individual_results.values(), key=lambda r: r.best_score): the
\* first of the results with the highest score
BestResult(results) ==
    results[CHOOSE i \in 1..Len(results) :
              /\ \A j \in 1..Len(results) : results[j].best_score <= results[i].best_score
              /\ \A j \in 1..(i - 1) : results[j].best_score < results[i].best_score]

\* weight = result.best_score, times 1.2 when converged; in tenths
Weight(result) ==
    IF result.best_score = NegInf THEN NegInf
    ELSE result.best_score * (IF result.convergence_info.converged THEN 12 ELSE 10)

\* EnsembleOptimizer._calculate_ensemble_params: params is the averaged
\* assignment, <<>> for {}; raised is the ZeroDivisionError of
\* weights[algo] /= total_weight, which numpy floats turn into inf or nan
CalculateEnsembleParams(results) ==
    LET weights == [ i \in 1..Len(results) |-> Weight(results[i]) ]
        sentinel == \E i \in 1..Len(results) : weights[i] = NegInf
        total_weight == SeqSum(weights)
        num_params == Len(results[1].best_params)
        value(k) == RDiv(RSum([ i \in 1..Len(results) |->
                                  RMul(results[i].best_params[k], Rat(weights[i], 1)) ]),
                         Rat(total_weight, 1))
    IN IF results = <<>> \/ sentinel THEN [ raised |-> FALSE, params |-> <<>> ]
       ELSE IF total_weight = 0
       THEN [ raised |-> \A i \in 1..Len(results) : ~results[i].numpy, params |-> <<>> ]
       ELSE [ raised |-> FALSE, params |-> [ k \in 1..num_params |-> value(k) ] ]

\* EnsembleOptimizer._get_ensemble_convergence_info
EnsembleConvergenceInfo(results) ==
    [ algorithms_used |-> [ i \in 1..Len(results) |-> results[i].algorithm ],
      converged_algorithms |->
          Cardinality({ i \in 1..Len(results) : results[i].convergence_info.converged }),
      total_algorithms |-> Len(results) ]

\* EnsembleOptimizer._merge_results: raised is the ValueError of an empty
\* individual_results or the exception of _calculate_ensemble_params; evals
\* counts the run_model_with_params call on the averaged assignment
MergeResults(results, objective) ==
    IF results = <<>> THEN [ raised |-> TRUE, evals |-> 0, result |-> NoResult ]
    ELSE LET best_result == BestResult(results)
             ensemble == CalculateEnsembleParams(results)
             ensemble_score == Evaluate(objective, ensemble.params)
             better == ensemble_score > best_result.best_score
         IN IF ensemble.raised THEN [ raised |-> TRUE, evals |-> 0, result |-> NoResult ]
            ELSE [ raised |-> FALSE, evals |-> 1,
                   result |->
                     [ algorithm |-> "ensemble",
                       source |-> IF better THEN "weighted_average"
                                  ELSE best_result.algorithm,
                       best_params |-> IF better THEN ensemble.params
                                       ELSE best_result.best_params,
                       best_score |-> IF better THEN ensemble_score
                                      ELSE best_result.best_score,
                       iterations_used |->
                           SeqSum([ i \in 1..Len(results) |-> results[i].iterations_used ]),
                       convergence_info |-> EnsembleConvergenceInfo(results) ] ]

IdleEnsemble == [ objective |-> [ kind |-> "failing", peak |-> 0, offset |-> 0, base |-> 0 ],
                  individual_results |-> <<>>, ensemble_result |-> NoResult ]

IdleCall == [ pc |-> "idle", n |-> 0, limit |-> 0, space |-> <<>>, int_typed |-> FALSE,
              total_budget |-> 0, strategy |-> "auto", parallel |-> FALSE,
              allocation |-> <<>>, pending |-> {}, succeeded |-> {}, failed |-> {},
              evals |-> 0, progress |-> <<>> ]

(***************************************************************************)
(* RealisticConstraintHandler                                              *)
(*                                                                         *)
(* An assignment is a function from the identifiers it holds to rationals. *)
(***************************************************************************)
\* self.price_elasticity, in dict order
PriceElasticity ==
    << [ name |-> "price_per_feature_use", elasticity |-> Rat(-1, 2) ],
       [ name |-> "price_annual_member", elasticity |-> Rat(-3, 10) ],
       [ name |-> "price_3year_member", elasticity |-> Rat(-2, 5) ],
       [ name |-> "price_5year_member", elasticity |-> Rat(-1, 2) ] >>

\* self.share_acceptance_thresholds, in dict order
ShareAcceptanceThresholds ==
    << [ name |-> "type2_luma_share_from_student.a", threshold |-> Rat(3, 5) ],
       [ name |-> "type2_luma_share_from_student.b", threshold |-> Rat(7, 10) ],
       [ name |-> "type2_luma_share_from_student.c", threshold |-> Rat(4, 5) ] >>

\* self.reasonable_ranges, in dict order
ReasonableRanges ==
    << [ name |-> "price_annual_member", min_val |-> Rat(15, 1), max_val |-> Rat(60, 1) ],
       [ name |-> "price_3year_member", min_val |-> Rat(40, 1), max_val |-> Rat(150, 1) ],
       [ name |-> "price_5year_member", min_val |-> Rat(60, 1), max_val |-> Rat(200, 1) ],
       [ name |-> "price_per_feature_use", min_val |-> Rat(2, 1), max_val |-> Rat(20, 1) ],
       [ name |-> "type2_luma_share_from_student.a", min_val |-> Rat(1, 5), max_val |-> Rat(7, 10) ],
       [ name |-> "type2_luma_share_from_student.b", min_val |-> Rat(3, 10), max_val |-> Rat(4, 5) ],
       [ name |-> "type2_luma_share_from_student.c", min_val |-> Rat(2, 5), max_val |-> Rat(9, 10) ],
       [ name |-> "new_clients_per_half_year", min_val |-> Rat(2, 1), max_val |-> Rat(15, 1) ],
       [ name |-> "renewal_rate_uni", min_val |-> Rat(3, 5), max_val |-> Rat(19, 20) ] >>

HasRange(name) == \E i \in 1..Len(ReasonableRanges) : ReasonableRanges[i].name = name

RangeOf(name) ==
    ReasonableRanges[CHOOSE i \in 1..Len(ReasonableRanges) : ReasonableRanges[i].name = name]

\* one pass of the loop of _apply_price_elasticity
\* base_price = (min_val + max_val) / 2
BasePrice(range) == RDiv(RAdd(range.min_val, range.max_val), Rat(2, 1))

\* demand_change = elasticity * (price - base_price) / base_price
DemandChange(elasticity, price, base_price) ==
    RMul(elasticity, RDiv(RSub(price, base_price), base_price))

ElasticityStep(params, entry) ==
    IF Present(params, entry.name) /\ HasRange(entry.name)
    THEN IF Present(params, "student_total_paid_cr")
         THEN SetParam(params, "student_total_paid_cr",
                       RMax(Rat(1, 100),
                            RMin(Rat(1, 5),
                                 RMul(params["student_total_paid_cr"],
                                      RAdd(Rat(1, 1),
                                           DemandChange(entry.elasticity,
                                                        params[entry.name],
                                                        BasePrice(RangeOf(entry.name))))))))
         ELSE params
    ELSE params

\* RealisticConstraintHandler._apply_price_elasticity
RECURSIVE ApplyPriceElasticity(_, _)
ApplyPriceElasticity(params, entries) ==
    IF entries = <<>> THEN params
    ELSE ApplyPriceElasticity(ElasticityStep(params, Head(entries)), Tail(entries))

\* one pass of the loop of _apply_share_acceptance
ShareStep(params, entry) ==
    IF Present(params, entry.name) /\ RLt(entry.threshold, params[entry.name])
    THEN LET over_threshold_rate == RDiv(RSub(params[entry.name], entry.threshold),
                                         RSub(Rat(1, 1), entry.threshold))
             renewal_penalty == RMul(Rat(1, 5), over_threshold_rate)
         IN IF Present(params, "renewal_rate_uni")
            THEN SetParam(params, "renewal_rate_uni",
                          RMax(Rat(2, 5), RMul(params["renewal_rate_uni"],
                                               RSub(Rat(1, 1), renewal_penalty))))
            ELSE params
    ELSE params

\* RealisticConstraintHandler._apply_share_acceptance
RECURSIVE ApplyShareAcceptance(_, _)
ApplyShareAcceptance(params, entries) ==
    IF entries = <<>> THEN params
    ELSE ApplyShareAcceptance(ShareStep(params, Head(entries)), Tail(entries))

\* RealisticConstraintHandler._apply_market_costs
ApplyMarketCosts(params) ==
    IF Present(params, "new_clients_per_half_year")
       /\ RLt(Rat(15, 1), params["new_clients_per_half_year"])
    THEN SetParam(params, "new_clients_per_half_year",
                  RMin(params["new_clients_per_half_year"], Rat(12, 1)))
    ELSE params

\* value > min_val + 0.8 * (max_val - min_val)
HighPrice(params, name) ==
    /\ Present(params, name) /\ HasRange(name)
    /\ RLt(RAdd(RangeOf(name).min_val,
                RMul(Rat(4, 5), RSub(RangeOf(name).max_val, RangeOf(name).min_val))),
           params[name])

\* RealisticConstraintHandler._apply_competitive_constraints
ApplyCompetitiveConstraints(params) ==
    LET high_price_count ==
            Cardinality({ name \in { "price_annual_member", "price_3year_member",
                                     "price_5year_member" } : HighPrice(params, name) })
    IN IF high_price_count >= 2 /\ Present(params, "student_total_paid_cr")
       THEN SetParam(params, "student_total_paid_cr",
                     RMax(Rat(1, 50),
                          RMul(params["student_total_paid_cr"],
                               RSub(Rat(1, 1), RMul(Rat(3, 20),
                                                    Rat(high_price_count - 1, 1))))))
       ELSE params

\* RealisticConstraintHandler.apply_realistic_constraints: works on params.copy()
ApplyRealisticConstraints(params) ==
    ApplyCompetitiveConstraints(
        ApplyMarketCosts(
            ApplyShareAcceptance(
                ApplyPriceElasticity(params, PriceElasticity),
                ShareAcceptanceThresholds)))

\* a penalty that only says whether the value is outside the range
RangePenaltyFlat(params, range) ==
    IF Present(params, range.name)
       /\ (RLt(params[range.name], range.min_val) \/ RLt(range.max_val, params[range.name]))
    THEN Rat(100, 1)
    ELSE RZero

\* the penalty of one entry of reasonable_ranges
RangePenalty(params, range) ==
    IF ~Present(params, range.name) THEN RZero
    ELSE IF RLt(params[range.name], range.min_val)
    THEN RMul(RDiv(RSub(range.min_val, params[range.name]), range.min_val), Rat(100, 1))
    ELSE IF RLt(range.max_val, params[range.name])
    THEN RMul(RDiv(RSub(params[range.name], range.max_val), range.max_val), Rat(100, 1))
    ELSE RZero

\* a penalty that ignores the acceptance thresholds
SharePenaltyOff(params, entry) == RZero

\* the penalty of one entry of share_acceptance_thresholds
SharePenalty(params, entry) ==
    IF Present(params, entry.name) /\ RLt(entry.threshold, params[entry.name])
    THEN RMul(RSub(params[entry.name], entry.threshold), Rat(200, 1))
    ELSE RZero

\* the penalty of an unrealistic acquisition target
VolumePenalty(params) ==
    IF Present(params, "new_clients_per_half_year")
       /\ RLt(Rat(15, 1), params["new_clients_per_half_year"])
    THEN RMul(RSub(params["new_clients_per_half_year"], Rat(15, 1)), Rat(50, 1))
    ELSE RZero

\* RealisticConstraintHandler.calculate_penalty_score
CalculatePenaltyScore(params) ==
    RAdd(RAdd(RSum([ i \in 1..Len(ReasonableRanges) |->
                       RangePenalty(params, ReasonableRanges[i]) ]),
              RSum([ i \in 1..Len(ShareAcceptanceThresholds) |->
                       SharePenalty(params, ShareAcceptanceThresholds[i]) ])),
         VolumePenalty(params))

\* calculate_penalty_score divides by min_val and by max_val: ZeroDivisionError
\* is the one exception its arithmetic on numbers can raise
RangePenaltyRaises(params, range) ==
    /\ Present(params, range.name)
    /\ \/ RLt(params[range.name], range.min_val) /\ range.min_val.n = 0
       \/ ~RLt(params[range.name], range.min_val) /\ RLt(range.max_val, params[range.name])
          /\ range.max_val.n = 0

PenaltyRaises(params) ==
    \E i \in 1..Len(ReasonableRanges) : RangePenaltyRaises(params, ReasonableRanges[i])

\* -float('inf') as a score of the enhanced evaluator
RNegInf == [ n |-> NegInf, d |-> 1 ]

\* base_score - penalty_weight * penalty_score in floating point: -inf absorbs
ScoreMinus(base_score, x) ==
    IF base_score = RNegInf THEN RNegInf ELSE RSub(base_score, x)

\* LumaFinancialModel(params).run_model() followed by results_df[metric].sum():
\* the model stands for the evaluator by the sum of the values it is handed
RawScore(objective, params) ==
    IF objective = "no_metric" THEN RNegInf
    ELSE RSum([ i \in 1..Len(ReasonableRanges) |->
                  IF Present(params, ReasonableRanges[i].name)
                  THEN params[ReasonableRanges[i].name] ELSE RZero ])

\* a call that works on the dict it is handed instead of a copy
CallApplyInPlace(params) ==
    [ caller |-> ApplyRealisticConstraints(params),
      returned |-> ApplyRealisticConstraints(params) ]

\* a call of apply_realistic_constraints: the caller's dict afterwards and
\* the dict returned; the steps work on params.copy()
CallApply(params) ==
    [ caller |-> params, returned |-> ApplyRealisticConstraints(params) ]

\* the rest of run_model_with_realistic_constraints once
\* apply_realistic_constraints has returned: applied.returned is
\* constrained_params, applied.caller is params_to_update afterwards
ScoreOfApplied(objective, applied, penalty_weight) ==
    [ params_to_update |-> applied.caller,
      score |-> IF objective = "failing" \/ PenaltyRaises(applied.caller)
                THEN RNegInf
                ELSE ScoreMinus(RawScore(objective, applied.returned),
                                RMul(penalty_weight,
                                     CalculatePenaltyScore(applied.caller))) ]

\* run_model_with_realistic_constraints
RunModelWithRealisticConstraints(objective, params_to_update, penalty_weight) ==
    ScoreOfApplied(objective, CallApply(params_to_update), penalty_weight)

IdleRealism == [ phase |-> "idle" ]

IdleRuns == <<>>

(***************************************************************************)
(* genetic_algorithm_optimizer                                             *)
(*                                                                         *)
(* An individual is known by its fitness: pop is the sequence of the       *)
(* scores of the population, hof the HallOfFame(1) as a sequence of at     *)
(* most one score.                                                         *)
(***************************************************************************)
\* the highest of a non-empty sequence of scores
MaxOf(scores) ==
    scores[CHOOSE i \in 1..Len(scores) : \A j \in 1..Len(scores) : scores[j] <= scores[i]]

\* hof.update(pop) for tools.HallOfFame(1): the best individual seen so far
HallOfFameUpdate(hof, pop) ==
    IF hof = <<>> THEN << MaxOf(pop) >> ELSE << Max2(hof[1], MaxOf(pop)) >>

\* offspring = select + clone, then mate and mutate: an offspring whose
\* fitness was not deleted carries the fitness of an individual of pop
Offspring(pop, offspring, invalid_ind) ==
    \A i \in 1..Len(pop) :
        i \notin invalid_ind => \E k \in 1..Len(pop) : offspring[i] = pop[k]

\* best_ind = hof[0]: IndexError when hof.update was never called
GAReturned(hof) ==
    IF hof = <<>> THEN [ raised |-> TRUE, best_score |-> NegInf ]
    ELSE [ raised |-> FALSE, best_score |-> hof[1] ]

IdleGA == [ phase |-> "idle" ]

IdleHandler ==
    [ phase |-> "idle", boundary |-> <<>>, dist |-> <<>>, rel |-> <<>>,
      x |-> <<>>, r1 |-> <<>>, r2 |-> <<>>, vr |-> <<>> ]

(***************************************************************************)
(* A monitor driven by a caller: the operations of OptimizationMonitor     *)
(***************************************************************************)
Scores == 0..MaxScore

IdleMonitor == NewMonitor(1)

MonitorInit ==
    /\ rz = IdleRealism
    /\ runs = IdleRuns
    /\ heap = <<>>
    /\ ga = IdleGA
    /\ sel = IdleSelector
    /\ monitor \in { NewMonitor(p) : p \in 1..MaxPatience }
    /\ ch = IdleHandler
    /\ gs = IdleGrid
    /\ eo = IdleEnsemble
    /\ call = IdleCall

\* monitor.start_monitoring()
MonStartMonitoring ==
    /\ monitor' = StartMonitoringOp(monitor)
    /\ UNCHANGED <<ch, gs, eo, call, rz, runs, heap, sel, ga>>

\* monitor.reset_history()
MonResetHistory ==
    /\ monitor' = ResetHistoryOp(monitor)
    /\ UNCHANGED <<ch, gs, eo, call, rz, runs, heap, sel, ga>>

\* monitor.record_iteration(iteration, current_score, best_score); the caller
\* numbers its calls 1, 2, ... as OptimizationCallback.__call__ does
MonRecordIteration ==
    /\ Len(monitor.history) < MaxRecords
    /\ \E best \in Scores : \E cur \in {0, best} :
          monitor' = RecordIterationOp(monitor, Len(monitor.history) + 1, cur, best)
    /\ UNCHANGED <<ch, gs, eo, call, rz, runs, heap, sel, ga>>

MonitorNext == MonStartMonitoring \/ MonResetHistory \/ MonRecordIteration

SpecMonitor == MonitorInit /\ [][MonitorNext]_vars

\* the best_score arguments of the record_iteration calls since the last reset
BestScores(m) == [ i \in 1..Len(m.history) |-> m.history[i].best_score ]

StrictlyIncreasing(s) == \A i \in 1..Len(s) : i > 1 => s[i] > s[i-1]

\* records i-n+1 .. i all carry the same best_score
FlatWindow(s, i, n) ==
    /\ n >= 1
    /\ i - n + 1 >= 1
    /\ i <= Len(s)
    /\ \A j \in (i-n+1)..i : s[j] = s[i]

C5_FlatRunStops ==
    /\ (\E i \in 1..Len(monitor.history) :
            FlatWindow(BestScores(monitor), i, monitor.patience))
          => ShouldStopEarly(monitor)
    /\ monitor.no_improvement_count >= monitor.patience => ShouldStopEarly(monitor)

\* C5 witness: patience >= 2, records after the flat window, flag raised
C5_Witness ==
    /\ monitor.patience >= 2
    /\ Len(monitor.history) > monitor.patience
    /\ FlatWindow(BestScores(monitor), monitor.patience, monitor.patience)
    /\ ~FlatWindow(BestScores(monitor), Len(monitor.history), 2)
    /\ ShouldStopEarly(monitor)



\* C20: the first record_iteration call records improvement 0; every later
\* call records its best_score minus the best_score of the previous record,
\* and the no-improvement counter is reset to 0 when that improvement exceeds
\* min_improvement and grows by one otherwise.
C20_ImprovementFromPreviousRecord ==
    [][ Len(monitor'.history) = Len(monitor.history) + 1 =>
          LET last == monitor'.history[Len(monitor'.history)]
              improvement == IF monitor.history = <<>> THEN 0
                             ELSE last.best_score
                                  - monitor.history[Len(monitor.history)].best_score
          IN /\ last.improvement = improvement
             /\ monitor'.no_improvement_count =
                   IF ExceedsMinImprovement(improvement) THEN 0
                   ELSE monitor.no_improvement_count + 1 ]_vars

\* the state of a run that has recorded nothing yet
Running(m) ==
    /\ m.history = <<>>
    /\ m.best_score_so_far = NegInf
    /\ m.no_improvement_count = 0
    /\ ~m.convergence_detected
    /\ ~m.early_stop_suggested

\* C21: a monitor without records is Running (counter 0, both flags false);
\* a record_iteration call never clears convergence_detected or
\* early_stop_suggested; and a monitor that has left the Running state is
\* brought back to it only by reset_history or start_monitoring.
C21_MonitorMovesForward ==
    /\ [](monitor.history = <<>> => Running(monitor))
    /\ [][ /\ Len(monitor'.history) = Len(monitor.history) + 1 =>
                /\ monitor.convergence_detected => monitor'.convergence_detected
                /\ monitor.early_stop_suggested => monitor'.early_stop_suggested
                /\ ~Running(monitor')
           /\ (~Running(monitor) /\ Running(monitor')) =>
                monitor' \in { ResetHistoryOp(monitor), StartMonitoringOp(monitor) }
         ]_vars

\* C21 witness: both flags are up and records were made after early stop was
\* first suggested
C21_Witness ==
    /\ monitor.convergence_detected
    /\ monitor.early_stop_suggested
    /\ Len(monitor.history) > monitor.patience
    /\ monitor.no_improvement_count > monitor.patience

(***************************************************************************)
(* A ConstraintHandler with registered constraints, asked to repair        *)
(***************************************************************************)
Params == {"a", "b", "c"}

ParamValues == { Rat(k, ValueDen) : k \in (-1)..MaxValueNum }

Assignments == UNION { [S -> ParamValues] : S \in SUBSET Params }

\* add_boundary_constraints: ranges with min <= max
BoundaryRanges == { <<Rat(0, 1), Rat(1, 2)>>, <<Rat(0, 1), Rat(1, 1)>> }

BoundaryChoices == UNION { [S -> BoundaryRanges] : S \in SUBSET Params }

\* add_distribution_constraint: target_sum defaults to 1.0
DistGroups == { <<"a", "b">>, <<"b", "c">>, <<"a", "b", "c">> }

DistConstraints == { [ params |-> g, target_sum |-> Rat(1, 1) ] : g \in DistGroups }

DistChoices == UNION { [1..n -> DistConstraints] : n \in 0..MaxDistConstraints }

\* add_relationship_constraint: none, or one over two identifiers
RelGroups == { <<"a", "b">>, <<"c", "a">> }

RelChoices == {<<>>} \cup { << [ params |-> g ] >> : g \in RelGroups }

HandlerInit ==
    /\ rz = IdleRealism
    /\ runs = IdleRuns
    /\ heap = <<>>
    /\ ga = IdleGA
    /\ sel = IdleSelector
    /\ monitor = IdleMonitor
    /\ gs = IdleGrid
    /\ eo = IdleEnsemble
    /\ call = IdleCall
    /\ \E b \in BoundaryChoices, d \in DistChoices, r \in RelChoices, x \in Assignments :
          ch = [ IdleHandler EXCEPT !.phase = "ready", !.boundary = b, !.dist = d,
                                    !.rel = r, !.x = x ]

\* repaired = handler.repair_params(x)
HandlerRepair ==
    /\ ch.phase = "ready"
    /\ ch' = [ ch EXCEPT !.phase = "repaired",
                         !.r1 = RepairParams(ch.boundary, ch.dist, ch.x) ]
    /\ UNCHANGED <<monitor, gs, eo, call, rz, runs, heap, sel, ga>>

\* handler.repair_params(repaired)
HandlerRepairAgain ==
    /\ ch.phase = "repaired"
    /\ ch' = [ ch EXCEPT !.phase = "repaired_twice",
                         !.r2 = RepairParams(ch.boundary, ch.dist, ch.r1) ]
    /\ UNCHANGED <<monitor, gs, eo, call, rz, runs, heap, sel, ga>>

\* handler.validate_and_repair_optimization_params(x)
HandlerValidateAndRepair ==
    /\ ch.phase = "ready"
    /\ ch' = [ ch EXCEPT !.phase = "validated",
                         !.vr = ValidateAndRepair(ch.boundary, ch.dist, ch.x) ]
    /\ UNCHANGED <<monitor, gs, eo, call, rz, runs, heap, sel, ga>>

HandlerNext == HandlerRepair \/ HandlerRepairAgain \/ HandlerValidateAndRepair

SpecRepair == HandlerInit /\ [][HandlerNext]_vars

\* every boundary constraint whose identifier is present holds
BoundaryHolds(boundary, params) ==
    \A k \in DOMAIN boundary :
        Present(params, k) => ~OutOfRange(boundary[k], params[k])

\* every sum-to-target constraint whose identifiers are all present is within
\* the tolerance of its target
SumsHold(dist, params) ==
    \A i \in 1..Len(dist) :
        (\A j \in 1..Len(dist[i].params) : Present(params, dist[i].params[j]))
            => ~SumOff(RSum(ValuesOf(params, dist[i].params)), dist[i].target_sum)

\* C1: the assignment returned by repair_params satisfies every boundary
\* constraint and every sum-to-target constraint whose identifiers are present.
C1_RepairSatisfiesConstraints ==
    ch.phase \in {"repaired", "repaired_twice"} =>
        /\ BoundaryHolds(ch.boundary, ch.r1)
        /\ SumsHold(ch.dist, ch.r1)

\* C2: repairing a repaired assignment changes nothing, and repairing an
\* already-valid assignment returns an equal assignment.
C2_RepairIdempotent ==
    /\ ch.phase = "repaired_twice" => ch.r2 = ch.r1
    /\ (ch.phase = "repaired" /\ IsValid(ch.boundary, ch.dist, ch.x)) => ch.r1 = ch.x



\* the constraint names an identifier the assignment does not hold
MissingIdentifier(constraint, params) ==
    \E j \in 1..Len(constraint.params) : ~Present(params, constraint.params[j])

NamesOf(constraint) == { constraint.params[j] : j \in 1..Len(constraint.params) }

\* C16: a sum-to-target constraint that names an identifier missing from the
\* assignment is skipped: validate_params reports no violation for it, and
\* after repair_params the identifiers of its group that are present hold
\* what the boundary repair alone gives them.
C16_MissingIdentifierSkipped ==
    ch.phase = "repaired" =>
       \A i \in 1..Len(ch.dist) :
          MissingIdentifier(ch.dist[i], ch.x) =>
             /\ i \notin CheckDistributionConstraints(ch.dist, ch.x)
             /\ \A name \in NamesOf(ch.dist[i]) \cap DOMAIN ch.x :
                   (\A k \in 1..Len(ch.dist) : k # i => name \notin NamesOf(ch.dist[k]))
                      => ch.r1[name] = RepairBoundaryConstraints(ch.boundary, ch.x)[name]

\* validate_params reports relationship violations only
OnlyRelational(handler, params) ==
    /\ CheckBoundaryConstraints(handler.boundary, params) = {}
    /\ CheckDistributionConstraints(handler.dist, params) = {}
    /\ CheckRelationshipConstraints(handler.rel, params) # {}

\* C24: when validate_params reports only relationship violations for an
\* assignment, repair_params returns an assignment equal to it, and
\* validate_params reports for the result every relationship violation it
\* reported for the input.
C24_RelationalNotRepaired ==
    (ch.phase = "repaired" /\ OnlyRelational(ch, ch.x)) =>
        /\ ch.r1 = ch.x
        /\ CheckRelationshipConstraints(ch.rel, ch.x)
              \subseteq CheckRelationshipConstraints(ch.rel, ch.r1)

(***************************************************************************)
(* One call of grid_search_optimizer                                       *)
(***************************************************************************)
GridNames == << "x", "y", "z", "w" >>

\* the space {x: (0, n-1), ...} sampled with n points: the grid 0, 1, .., n-1
GridSpace(dims, points_per_dim) ==
    [ i \in 1..dims |-> [ name |-> GridNames[i],
                          min_val |-> Rat(0, 1),
                          max_val |-> Rat(points_per_dim - 1, 1) ] ]

\* f(x) = -(x - peak)^2 summed over the dimensions, or an evaluator that fails
Objectives(points_per_dim) ==
    { [ kind |-> "quadratic", peak |-> c, offset |-> 0, base |-> 0 ] :
        c \in 0..(points_per_dim - 1) }
        \cup { [ kind |-> "failing", peak |-> 0, offset |-> 0, base |-> 0 ] }

GridInit ==
    /\ rz = IdleRealism
    /\ runs = IdleRuns
    /\ heap = <<>>
    /\ ga = IdleGA
    /\ sel = IdleSelector
    /\ monitor = IdleMonitor
    /\ ch = IdleHandler
    /\ eo = IdleEnsemble
    /\ call = IdleCall
    /\ \E dims \in 1..MaxGridDims, n \in 1..MaxPoints :
         \E obj \in Objectives(n) :
            gs = [ phase |-> "ready", space |-> GridSpace(dims, n),
                   points_per_dim |-> n, objective |-> obj ]

\* best_params, best_score, all_results = grid_search_optimizer(...)
GridSearch ==
    /\ gs.phase = "ready"
    /\ gs' = [ phase |-> "done", space |-> gs.space,
               points_per_dim |-> gs.points_per_dim, objective |-> gs.objective,
               out |-> GridSearchOptimizer(gs.space, gs.objective, gs.points_per_dim) ]
    /\ UNCHANGED <<monitor, ch, eo, call, rz, runs, heap, sel, ga>>

GridNext == GridSearch

SpecGrid == GridInit /\ [][GridNext]_vars

\* the Cartesian product the call enumerates
GridCombos(g) ==
    Product([ i \in 1..Len(g.space) |-> GridValues(g.space[i], g.points_per_dim) ])

\* C3: for a deterministic pure objective the call evaluates every point of the
\* Cartesian product and returns a point and score that are the maximum over
\* all enumerated points.
C3_GridExhaustiveMax ==
    gs.phase = "done" =>
        LET combos == GridCombos(gs)
        IN /\ Len(gs.out.results_list) = Len(combos)
           /\ \A i \in 1..Len(combos) :
                 gs.out.best_score >= Evaluate(gs.objective, combos[i])
           /\ gs.out.found =>
                 Evaluate(gs.objective, gs.out.best_params) = gs.out.best_score

\* the scenario of the specification: {x: (0,10)}, f(x) = -(x-7)^2, 11 points
C3_ExampleFindsSeven ==
    ( /\ gs.phase = "done"
      /\ Len(gs.space) = 1
      /\ gs.points_per_dim = 11
      /\ gs.objective = [ kind |-> "quadratic", peak |-> 7, offset |-> 0, base |-> 0 ] )
        => (gs.out.best_params = << Rat(7, 1) >> /\ gs.out.best_score = 0)

(***************************************************************************)
(* SpecEnsemble: optimize calls on one EnsembleOptimizer                   *)
(*                                                                         *)
(* The optimizer is built for one objective; every call of the session     *)
(* passes the same param_ranges and picks its budget, allocation policy    *)
(* and execution mode.  A strategy run is one step; in parallel mode the   *)
(* runs complete in any order.  SpecEnsemble makes one call on each fresh  *)
(* optimizer, SpecReuse up to MaxCalls calls on the same optimizer.        *)
(***************************************************************************)
Budgets == { 1, 5, MaxBudget }
Strategies == { "auto", "equal", "weighted", "sequential" }

EnsSpace(dims) ==
    [ i \in 1..dims |-> [ name |-> GridNames[i], min_val |-> Rat(0, 1), max_val |-> Rat(2, 1) ] ]

EnsObjectives ==
    { [ kind |-> "quadratic", peak |-> c, offset |-> o, base |-> -1 ] :
        c \in { 0, 1 }, o \in { 0, 1 } }
        \cup { [ kind |-> "failing", peak |-> 0, offset |-> 0, base |-> 0 ] }
        \cup { [ kind |-> "partial", peak |-> 1, offset |-> 1, base |-> b ] :
                 b \in { -1, NegInf } }

\* the points a randomised strategy may report as its best: both ends and the
\* middle of the ranges
BestPoints(space) ==
    { [ i \in 1..Len(space) |-> space[i].min_val ],
      [ i \in 1..Len(space) |-> space[i].max_val ],
      [ i \in 1..Len(space) |->
          RDiv(RAdd(space[i].min_val, space[i].max_val), Rat(2, 1)) ] }

EnsembleInit ==
    /\ rz = IdleRealism
    /\ runs = IdleRuns
    /\ heap = <<>>
    /\ ga = IdleGA
    /\ sel = IdleSelector
    /\ monitor = IdleMonitor
    /\ ch = IdleHandler
    /\ gs = IdleGrid
    /\ \E obj \in EnsObjectives : eo = [ IdleEnsemble EXCEPT !.objective = obj ]
    /\ \E dims \in 1..MaxGridDims, it \in BOOLEAN :
          call = [ IdleCall EXCEPT !.space = EnsSpace(dims), !.int_typed = it,
                                   !.limit = 1 ]

\* one optimizer, used for several optimize calls in a row
ReuseInit ==
    /\ rz = IdleRealism
    /\ runs = IdleRuns
    /\ heap = <<>>
    /\ ga = IdleGA
    /\ sel = IdleSelector
    /\ monitor = IdleMonitor
    /\ ch = IdleHandler
    /\ gs = IdleGrid
    /\ eo = [ IdleEnsemble EXCEPT
               !.objective = [ kind |-> "quadratic", peak |-> 0, offset |-> 0, base |-> -1 ] ]
    /\ call = [ IdleCall EXCEPT !.space = EnsSpace(1), !.limit = MaxCalls ]

BudgetOf(algorithm) ==
    call.allocation[CHOOSE i \in 1..Len(call.allocation) :
                       call.allocation[i].algorithm = algorithm].budget

\* optimize up to the start of the strategy runs: recommend_algorithm and
\* progress = 0.1 + 0.8 * (completed / total_algorithms)
ProgressPerAlgorithm(completed, total_algorithms) ==
    RAdd(Rat(1, 10), RMul(Rat(4, 5), Rat(completed, 1)))

ProgressAfter(completed, total_algorithms) ==
    RAdd(Rat(1, 10), RMul(Rat(4, 5), Rat(completed, total_algorithms)))

\* the fractions handed to progress_callback around one strategy run:
\* _run_algorithms_parallel reports a run that returned, counting it;
\* _run_algorithms_sequential reports before the run, counting the runs that
\* returned before it
RunProgress(progress, parallel, raised, completed, total_algorithms) ==
    IF parallel
    THEN IF raised THEN progress
         ELSE Append(progress, ProgressAfter(completed + 1, total_algorithms))
    ELSE Append(progress, ProgressAfter(completed, total_algorithms))

\* progress_callback(0.0), recommend_algorithm, _allocate_budget,
\* progress_callback(0.1)
OptimizeStart ==
    /\ call.pc \in { "idle", "returned", "raised" }
    /\ call.n < call.limit
    /\ \E total_budget \in Budgets, strategy \in Strategies, parallel \in BOOLEAN :
         LET n == Len(call.space)
             recs == RecommendAlgorithm(n, IF call.int_typed THEN n ELSE 0, total_budget)
             allocation == AllocateBudget(recs, total_budget, strategy)
         IN call' = [ call EXCEPT
                        !.pc = "running", !.n = @ + 1,
                        !.total_budget = total_budget, !.strategy = strategy,
                        !.parallel = parallel, !.allocation = allocation,
                        !.pending = { allocation[i].algorithm : i \in 1..Len(allocation) },
                        !.succeeded = {}, !.failed = {}, !.evals = 0,
                        !.progress = << RZero, Rat(1, 10) >> ]
    /\ UNCHANGED <<monitor, ch, gs, eo, rz, runs, heap, sel, ga>>

\* _run_algorithms_parallel when parallel_execution and more than one strategy
\* is allocated: any pending run completes next; _run_algorithms_sequential:
\* the runs follow the allocation's order
Runnable(algorithm) ==
    /\ call.pc = "running"
    /\ algorithm \in call.pending
    /\ \/ call.parallel /\ Len(call.allocation) > 1
       \/ \A i \in 1..Len(call.allocation) :
             call.allocation[i].algorithm \in call.pending
                => \E j \in 1..i : call.allocation[j].algorithm = algorithm

\* result = self._run_single_algorithm(...); self.individual_results[algorithm] = result
\* or, when the run raised: print(...)
Finish(algorithm, raw) ==
    /\ eo' = IF raw.raised THEN eo
             ELSE [ eo EXCEPT !.individual_results =
                      StoreResult(@, RunSingleAlgorithm(algorithm, call.space,
                                                        BudgetOf(algorithm), raw, call.n)) ]
    /\ call' = [ call EXCEPT
                   !.pending = @ \ { algorithm },
                   !.succeeded = IF raw.raised THEN @ ELSE @ \cup { algorithm },
                   !.failed = IF raw.raised THEN @ \cup { algorithm } ELSE @,
                   !.evals = @ + raw.evals,
                   !.progress = RunProgress(@, call.parallel /\ Len(call.allocation) > 1,
                                            raw.raised, Cardinality(call.succeeded),
                                            Len(call.allocation)) ]
    /\ UNCHANGED <<monitor, ch, rz, runs, heap, sel, ga>>

GridRun ==
    /\ Runnable("grid_search")
    /\ Finish("grid_search",
              RunGridSearch(call.space, BudgetOf("grid_search"), eo.objective))
    /\ gs' = [ phase |-> "done", space |-> call.space,
               points_per_dim |-> EnsemblePointsPerDim(call.space, BudgetOf("grid_search")),
               objective |-> eo.objective,
               out |-> GridSearchOptimizer(call.space, eo.objective,
                          EnsemblePointsPerDim(call.space, BudgetOf("grid_search"))) ]

BayesReturns ==
    /\ Runnable("bayesian_optimization")
    /\ ~BayesMustRaise(call.int_typed, BudgetOf("bayesian_optimization"))
    /\ \E best \in BestPoints(call.space) :
          Finish("bayesian_optimization",
                 RunBayesianOptimization(call.space, call.int_typed,
                     BudgetOf("bayesian_optimization"), eo.objective, best, FALSE))
    /\ UNCHANGED gs

BayesRaises ==
    /\ Runnable("bayesian_optimization")
    /\ BayesMayRaise(call.int_typed, BudgetOf("bayesian_optimization"), eo.objective)
    /\ Finish("bayesian_optimization",
              RunBayesianOptimization(call.space, call.int_typed,
                  BudgetOf("bayesian_optimization"), eo.objective, <<>>, TRUE))
    /\ UNCHANGED gs

GAReturns ==
    /\ Runnable("genetic_algorithm")
    /\ GAGenerations(BudgetOf("genetic_algorithm")) > 0
    /\ \E best \in BestPoints(call.space),
          reevaluated \in { 0, GAGenerations(BudgetOf("genetic_algorithm"))
                                 * GAPopulationSize(BudgetOf("genetic_algorithm")) } :
          Finish("genetic_algorithm",
                 RunGeneticAlgorithm(call.space, BudgetOf("genetic_algorithm"),
                                     eo.objective, best, reevaluated))
    /\ UNCHANGED gs

GARaises ==
    /\ Runnable("genetic_algorithm")
    /\ GAGenerations(BudgetOf("genetic_algorithm")) = 0
    /\ Finish("genetic_algorithm",
              RunGeneticAlgorithm(call.space, BudgetOf("genetic_algorithm"),
                                  eo.objective, <<>>, 0))
    /\ UNCHANGED gs

\* progress_callback(0.9); self.ensemble_result = self._merge_results();
\* progress_callback(1.0); return self.ensemble_result
MergeReturns ==
    /\ call.pc = "running" /\ call.pending = {}
    /\ LET merged == MergeResults(eo.individual_results, eo.objective)
       IN /\ ~merged.raised
          /\ eo' = [ eo EXCEPT !.ensemble_result = merged.result ]
          /\ call' = [ call EXCEPT !.pc = "returned", !.evals = @ + merged.evals,
                                   !.progress = @ \o << Rat(9, 10), Rat(1, 1) >> ]
    /\ UNCHANGED <<monitor, ch, gs, rz, runs, heap, sel, ga>>

\* progress_callback(0.9); the exception of _merge_results leaves optimize
MergeRaises ==
    /\ call.pc = "running" /\ call.pending = {}
    /\ MergeResults(eo.individual_results, eo.objective).raised
    /\ call' = [ call EXCEPT !.pc = "raised", !.progress = Append(@, Rat(9, 10)) ]
    /\ UNCHANGED <<monitor, ch, gs, eo, rz, runs, heap, sel, ga>>

EnsembleNext ==
    \/ OptimizeStart
    \/ GridRun
    \/ BayesReturns
    \/ BayesRaises
    \/ GAReturns
    \/ GARaises
    \/ MergeReturns
    \/ MergeRaises

SpecEnsemble == EnsembleInit /\ [][EnsembleNext]_vars

SpecReuse == ReuseInit /\ [][EnsembleNext]_vars

\* the strategies the call allocated a budget to
Allocated == { call.allocation[i].algorithm : i \in 1..Len(call.allocation) }

\* the results _merge_results fused when the call returned
Fused == { eo.individual_results[i] : i \in 1..Len(eo.individual_results) }

\* C6: whenever optimize returns a result, its best_score is greater than or
\* equal to the best_score of every strategy result that took part in the
\* fusion, whatever the averaged assignment scored.
C6_FusionAtLeastBest ==
    call.pc = "returned" =>
        \A r \in Fused : eo.ensemble_result.best_score >= r.best_score

\* a call that fused two or more results and returned the averaged assignment
\* because it scored higher than the best single result
C6_Witness ==
    /\ call.pc = "returned"
    /\ Len(eo.individual_results) >= 2
    /\ eo.ensemble_result.source = "weighted_average"
    /\ \A r \in Fused : eo.ensemble_result.best_score > r.best_score

\* C7: a strategy whose run raises contributes no result to the fusion and
\* does not keep the other allocated strategies from running and contributing;
\* when no allocated strategy produces a result, optimize raises instead of
\* returning a result.
C7_FailureIsolation ==
    call.pc \in { "returned", "raised" } =>
        /\ call.succeeded \cup call.failed = Allocated
        /\ call.pc = "returned" =>
              /\ \A r \in Fused : r.algorithm \notin call.failed
              /\ \A a \in call.succeeded : \E r \in Fused : r.algorithm = a /\ r.run = call.n
        /\ call.succeeded = {} => call.pc = "raised"

\* C8: whenever at least one allocated strategy returns a result, optimize
\* returns a result and raises nothing, for every combination of best scores
\* and convergence flags.
C8_ReturnsWhenAnySucceeds ==
    call.pc = "raised" => call.succeeded = {}

\* C9: when some allocated strategies fail and at least one succeeds, the
\* returned result carries a diagnostic that records the exclusion: the number
\* of strategies requested against the number used.
C9_ExclusionReported ==
    (call.pc = "returned" /\ call.failed # {} /\ call.succeeded # {}) =>
        /\ eo.ensemble_result.convergence_info.total_algorithms = Cardinality(Allocated)
        /\ Len(eo.ensemble_result.convergence_info.algorithms_used)
               = Cardinality(call.succeeded)

\* C10: over one optimize call with total budget B >= 1, the number of
\* Objective Evaluator calls made by all strategy runs together with the
\* fusion step never exceeds B.
C10_EvalsWithinBudget ==
    call.pc # "idle" => call.evals <= call.total_budget



\* C17: a candidate the evaluator cannot score gets the sentinel, and such a
\* candidate is never returned as the best one: not by grid search when
\* another candidate it evaluated has a score, and not by the fusion step
\* when another strategy result has a score.
C17_SentinelNeverBest ==
    /\ gs.phase = "done" =>
          /\ \A i \in 1..Len(gs.out.results_list) :
                Unscorable(gs.objective, gs.out.results_list[i].point)
                   => gs.out.results_list[i].score = NegInf
          /\ (\E i \in 1..Len(gs.out.results_list) :
                 gs.out.results_list[i].score # NegInf)
                => /\ gs.out.found
                   /\ gs.out.best_score # NegInf
                   /\ ~Unscorable(gs.objective, gs.out.best_params)
    /\ call.pc = "returned" =>
          ((\E r \in Fused : r.best_score # NegInf)
              => /\ eo.ensemble_result.best_score # NegInf
                 /\ ~Unscorable(eo.objective, eo.ensemble_result.best_params))

\* returned: grid search met candidates with and without a score, a strategy
\* result with the sentinel was fused with one that has a score
C17_Witness ==
    /\ call.pc = "returned"
    /\ gs.phase = "done"
    /\ \E i \in 1..Len(gs.out.results_list) : gs.out.results_list[i].score = NegInf
    /\ \E i \in 1..Len(gs.out.results_list) : gs.out.results_list[i].score # NegInf
    /\ \E r \in Fused : r.best_score = NegInf
    /\ \E r \in Fused : r.best_score # NegInf
    /\ eo.ensemble_result.best_score # NegInf

\* the budgets of an allocation, added up
RECURSIVE BudgetSum(_)
BudgetSum(allocation) ==
    IF allocation = <<>> THEN 0
    ELSE Head(allocation).budget + BudgetSum(Tail(allocation))

\* C22: for every allocation policy and every total_budget >= 1 the budgets
\* _allocate_budget hands to the strategies add up to at most total_budget.
C22_AllocationWithinBudget ==
    (call.pc # "idle" /\ call.total_budget >= 1)
        => BudgetSum(call.allocation) <= call.total_budget

\* C25: within one strategy run the iteration numbers recorded on the run's
\* monitor are strictly increasing in recording order; here for the monitor
\* the progress wrappers of the ensemble feed.
C25_IterationsStrictlyIncreasing ==
    \A i \in 1..Len(eo.individual_results) :
        StrictlyIncreasing(eo.individual_results[i].recorded)

\* C27: the reports to a run's monitor carry the strategy's scores, so that
\* the best score of the convergence summary of every result equals the
\* best score the strategy returned.
C27_SummaryHasBestScore ==
    \A i \in 1..Len(eo.individual_results) :
        eo.individual_results[i].convergence_info.best_score
            = eo.individual_results[i].best_score

\* C28: over any sequence of optimize calls on one EnsembleOptimizer, the
\* results a call fuses are all results of strategy runs of that call.
C28_FusesOnlyThisCall ==
    call.pc = "returned" => \A r \in Fused : r.run = call.n

\* the orders in which n results can have been stored
Orders(n) == { f \in [ 1..n -> 1..n ] : \A i, j \in 1..n : f[i] = f[j] => i = j }

Reordered(results, order) == [ i \in 1..Len(results) |-> results[order[i]] ]

\* two fused results name the same assignment, score and provenance
SameOutcome(a, b) ==
    /\ a.best_params = b.best_params
    /\ a.best_score = b.best_score
    /\ a.source = b.source

\* C29: in parallel mode the assignment, the score and the provenance of the
\* result optimize returns are those of the fusion of the same strategy
\* results stored in any other completion order, ties on best score included.
C29_CompletionOrderIrrelevant ==
    (call.pc = "returned" /\ call.parallel /\ Len(call.allocation) > 1) =>
        \A order \in Orders(Len(eo.individual_results)) :
            SameOutcome(eo.ensemble_result,
                        MergeResults(Reordered(eo.individual_results, order),
                                     eo.objective).result)

\* C30: the fractions handed to progress_callback during one optimize call
\* lie in [0, 1] and never decrease, in parallel and in sequential mode and
\* whichever strategies fail; the first is 0.0, and 1.0 is handed over only
\* by a call that returns a result.
C30_ProgressNeverDecreases ==
    call.pc # "idle" =>
        /\ call.progress # <<>> /\ call.progress[1] = RZero
        /\ \A i \in 1..Len(call.progress) :
              /\ ~RLt(call.progress[i], RZero)
              /\ ~RLt(Rat(1, 1), call.progress[i])
              /\ i > 1 => ~RLt(call.progress[i], call.progress[i - 1])
              /\ call.progress[i] = Rat(1, 1) => call.pc = "returned"

\* a sequential call has returned although a strategy failed: the fraction
\* reported before the failed run is reported again before the next run
C30_Witness ==
    /\ call.pc = "returned"
    /\ call.failed # {}
    /\ call.succeeded # {}
    /\ call.progress[Len(call.progress)] = Rat(1, 1)
    /\ Len(call.progress) >= 5
    /\ \E i \in 2..Len(call.progress) :
          call.progress[i] = call.progress[i - 1] /\ call.progress[i] # Rat(1, 10)

(***************************************************************************)
(* SpecRealism: one assignment handed to calculate_penalty_score, then to  *)
(* it again with one identifier moved further beyond its range bound, or   *)
(* handed to run_model_with_realistic_constraints.                         *)
(***************************************************************************)
\* the identifiers an assignment holds together
RealismGroups ==
    { <<"price_annual_member", "price_3year_member", "student_total_paid_cr">>,
      <<"type2_luma_share_from_student.a", "renewal_rate_uni">>,
      <<"new_clients_per_half_year", "unknown_param">>,
      <<"price_per_feature_use", "price_5year_member">>,
      <<"type2_luma_share_from_student.b", "type2_luma_share_from_student.c">> }

\* a fifth of the width of the range of an identifier
RangeUnit(name) ==
    RDiv(RSub(RangeOf(name).max_val, RangeOf(name).min_val), Rat(5, 1))

RealismValues(name) ==
    IF HasRange(name)
    THEN { RangeOf(name).min_val, RangeOf(name).max_val,
           RDiv(RAdd(RangeOf(name).min_val, RangeOf(name).max_val), Rat(2, 1)) }
         \cup { RSub(RangeOf(name).min_val, RMul(Rat(k, 1), RangeUnit(name))) :
                  k \in 1..MaxBeyond }
         \cup { RAdd(RangeOf(name).max_val, RMul(Rat(k, 1), RangeUnit(name))) :
                  k \in 1..MaxBeyond }
    ELSE IF name = "student_total_paid_cr" THEN { Rat(1, 20) }
    ELSE { Rat(-5, 1) }

\* every assignment that holds some of the names, each at one of its values
RECURSIVE AssignmentsOver(_)
AssignmentsOver(names) ==
    IF names = <<>> THEN { <<>> }
    ELSE LET rest == AssignmentsOver(Tail(names))
         IN rest \cup { SetParam(f, Head(names), v) :
                          f \in rest, v \in RealismValues(Head(names)) }

RealismAssignments == UNION { AssignmentsOver(g) : g \in RealismGroups }

PenaltyWeights == { Rat(1, 10), Rat(1, 1) }

\* the distance by which an identifier lies beyond its range bound
Beyond(params, name) ==
    IF RLt(params[name], RangeOf(name).min_val)
    THEN RSub(RangeOf(name).min_val, params[name])
    ELSE IF RLt(RangeOf(name).max_val, params[name])
    THEN RSub(params[name], RangeOf(name).max_val)
    ELSE RZero

RealismInit ==
    /\ monitor = IdleMonitor
    /\ ch = IdleHandler
    /\ gs = IdleGrid
    /\ eo = IdleEnsemble
    /\ call = IdleCall
    /\ runs = IdleRuns
    /\ heap = <<>>
    /\ ga = IdleGA
    /\ sel = IdleSelector
    /\ \E p \in RealismAssignments, w \in PenaltyWeights,
          obj \in { "sum", "no_metric", "failing" } :
          rz = [ phase |-> "ready", p |-> p, penalty_weight |-> w, objective |-> obj,
                 raised |-> FALSE, penalty |-> RZero,
                 moved |-> "", q |-> <<>>, penalty_q |-> RZero,
                 p_after |-> <<>>, score |-> RZero ]

\* penalty = handler.calculate_penalty_score(p)
RealismPenalty ==
    /\ rz.phase = "ready"
    /\ rz' = [ rz EXCEPT !.phase = "scored",
                         !.raised = PenaltyRaises(rz.p),
                         !.penalty = CalculatePenaltyScore(rz.p) ]
    /\ UNCHANGED <<monitor, ch, gs, eo, call, runs, heap, sel, ga>>

\* the same call on q: p with one identifier moved further out of its range
RealismMove ==
    /\ rz.phase = "scored"
    /\ \E name \in DOMAIN rz.p, k \in 1..MaxBeyond :
          /\ HasRange(name)
          /\ \/ ~RLt(rz.p[name], RangeOf(name).max_val)
             \/ ~RLt(RangeOf(name).min_val, rz.p[name])
          /\ LET step == RMul(Rat(k, 1), RangeUnit(name))
                 q == SetParam(rz.p, name,
                               IF ~RLt(rz.p[name], RangeOf(name).max_val)
                               THEN RAdd(rz.p[name], step)
                               ELSE RSub(rz.p[name], step))
             IN rz' = [ rz EXCEPT !.phase = "moved", !.moved = name, !.q = q,
                                  !.raised = PenaltyRaises(q),
                                  !.penalty_q = CalculatePenaltyScore(q) ]
    /\ UNCHANGED <<monitor, ch, gs, eo, call, runs, heap, sel, ga>>

\* the call has returned r
Evaluated(state, r) ==
    [ state EXCEPT !.phase = "evaluated", !.score = r.score,
                   !.p_after = r.params_to_update ]

\* score = run_model_with_realistic_constraints(base_params, p, metric, handler, w)
RealismEvaluate ==
    /\ rz.phase = "ready"
    /\ rz' = Evaluated(rz, RunModelWithRealisticConstraints(rz.objective, rz.p,
                                                             rz.penalty_weight))
    /\ UNCHANGED <<monitor, ch, gs, eo, call, runs, heap, sel, ga>>

RealismNext == RealismPenalty \/ RealismMove \/ RealismEvaluate

SpecRealism == RealismInit /\ [][RealismNext]_vars

\* the price identifiers of an assignment that _apply_price_elasticity acts on
PricesOf(params) ==
    { i \in 1..Len(PriceElasticity) :
        Present(params, PriceElasticity[i].name) /\ HasRange(PriceElasticity[i].name) }

AboveBaseline(params, name) == RLt(BasePrice(RangeOf(name)), params[name])
BelowBaseline(params, name) == RLt(params[name], BasePrice(RangeOf(name)))

\* the conversion rate is strictly lower when a price lies above its baseline
\* and none below, and unchanged when no price lies above its baseline
OnlyLowers(params, before, after) ==
    /\ ( /\ \E i \in PricesOf(params) : AboveBaseline(params, PriceElasticity[i].name)
         /\ \A i \in PricesOf(params) : ~BelowBaseline(params, PriceElasticity[i].name) )
          => RLt(after, before)
    /\ (\A i \in PricesOf(params) : ~AboveBaseline(params, PriceElasticity[i].name))
          => after = before

\* C26: for an assignment that holds the conversion rate, a price above its
\* baseline (the midpoint of its realistic range) makes
\* apply_realistic_constraints return a strictly lower conversion rate, and
\* prices at or below their baselines leave the conversion rate unchanged.
C26_ElasticityOnlyLowers ==
    (rz.phase = "evaluated" /\ Present(rz.p, "student_total_paid_cr")) =>
        OnlyLowers(rz.p, rz.p["student_total_paid_cr"],
                   ApplyRealisticConstraints(rz.p)["student_total_paid_cr"])

\* the identifiers calculate_penalty_score knows
KnownNames ==
    { ReasonableRanges[i].name : i \in 1..Len(ReasonableRanges) }
    \cup { ShareAcceptanceThresholds[i].name : i \in 1..Len(ShareAcceptanceThresholds) }

Restrict(params, names) == [ k \in (DOMAIN params) \cap names |-> params[k] ]

InRange(params, name) ==
    /\ ~RLt(params[name], RangeOf(name).min_val)
    /\ ~RLt(RangeOf(name).max_val, params[name])

\* in range, at or below the acceptance threshold, at or below the volume cap
AllRealistic(params) ==
    /\ \A name \in DOMAIN params : HasRange(name) => InRange(params, name)
    /\ \A i \in 1..Len(ShareAcceptanceThresholds) :
          Present(params, ShareAcceptanceThresholds[i].name) =>
             ~RLt(ShareAcceptanceThresholds[i].threshold,
                  params[ShareAcceptanceThresholds[i].name])
    /\ Present(params, "new_clients_per_half_year") =>
          ~RLt(Rat(15, 1), params["new_clients_per_half_year"])

\* C14: calculate_penalty_score never raises and is never negative; it is
\* zero exactly when every present identifier with a realistic range is in
\* its range, every present share is at or below its threshold and the
\* volume is at or below its cap; unknown identifiers contribute nothing.
C14_PenaltyZeroIffRealistic ==
    rz.phase = "scored" =>
       /\ ~rz.raised
       /\ ~RLt(rz.penalty, RZero)
       /\ (rz.penalty = RZero) <=> AllRealistic(rz.p)
       /\ rz.penalty = CalculatePenaltyScore(Restrict(rz.p, KnownNames))

\* scored: an unknown identifier next to a known one above its cap, and a
\* penalty that is exactly the known one's
C14_Witness ==
    /\ rz.phase = "scored"
    /\ Present(rz.p, "unknown_param")
    /\ Present(rz.p, "new_clients_per_half_year")
    /\ ~AllRealistic(rz.p)
    /\ RLt(RZero, rz.penalty)

\* C15: with the other identifiers fixed, the penalty grows strictly with
\* the distance of one identifier beyond its range bound, on either side,
\* and is positive as soon as an identifier is outside its range.
C15_PenaltyStrictlyIncreasing ==
    /\ rz.phase \in { "scored", "moved" } =>
          \A name \in DOMAIN rz.p :
             (HasRange(name) /\ ~InRange(rz.p, name)) => RLt(RZero, rz.penalty)
    /\ rz.phase = "moved" =>
          (RLt(Beyond(rz.p, rz.moved), Beyond(rz.q, rz.moved)) =>
              RLt(rz.penalty, rz.penalty_q))

\* moved: an identifier already below its lower bound was moved further down
C15_Witness ==
    /\ rz.phase = "moved"
    /\ RLt(rz.p[rz.moved], RangeOf(rz.moved).min_val)
    /\ RLt(RZero, Beyond(rz.p, rz.moved))
    /\ RLt(Beyond(rz.p, rz.moved), Beyond(rz.q, rz.moved))
    /\ Cardinality(DOMAIN rz.p) > 1

\* C19: the score of run_model_with_realistic_constraints is the evaluator's
\* result on adjust(p) minus penalty_weight times the penalty of p as it
\* was before the adjustment, and the call leaves p as it was.
C19_ScoreIsRawMinusPenalty ==
    (rz.phase = "evaluated" /\ rz.objective # "failing") =>
       /\ rz.p_after = rz.p
       /\ rz.score = ScoreMinus(RawScore(rz.objective, ApplyRealisticConstraints(rz.p)),
                                RMul(rz.penalty_weight, CalculatePenaltyScore(rz.p)))

\* evaluated: adjust changed the assignment, and the penalty of the adjusted
\* assignment differs from the penalty of p
C19_Witness ==
    /\ rz.phase = "evaluated"
    /\ rz.objective = "sum"
    /\ ApplyRealisticConstraints(rz.p) # rz.p
    /\ CalculatePenaltyScore(ApplyRealisticConstraints(rz.p)) # CalculatePenaltyScore(rz.p)
    /\ rz.score # RNegInf


(***************************************************************************)
(* SpecSelector: one call of AlgorithmSelector.recommend_algorithm         *)
(***************************************************************************)
\* the entries a parameter space is built from: a float range, a range of
\* ints, an acquisition target, and a range with min_val = max_val
SelRanges ==
    { [ name |-> "x", min_val |-> 0, max_val |-> 2, int_typed |-> FALSE ],
      [ name |-> "n", min_val |-> 1, max_val |-> 5, int_typed |-> TRUE ],
      [ name |-> "new_clients_per_half_year", min_val |-> 2, max_val |-> 15,
        int_typed |-> FALSE ],
      [ name |-> "fixed", min_val |-> 1, max_val |-> 1, int_typed |-> FALSE ] }

\* non-empty spaces; the position stands for the distinct identifier
SelSpaces == UNION { [1..n -> SelRanges] : n \in 1..MaxSelDims }

SelBudgets ==
    { NoBudget } \cup { [ given |-> TRUE, value |-> b ] :
                          b \in { 0, 1, 10, 20, 27, 40, 54, MaxBudget, 2 * MaxBudget } }

SelPreferences == [ prefer_fast : BOOLEAN, prefer_accurate : BOOLEAN ]

SelectorInit ==
    /\ monitor = IdleMonitor
    /\ ch = IdleHandler
    /\ gs = IdleGrid
    /\ eo = IdleEnsemble
    /\ call = IdleCall
    /\ rz = IdleRealism
    /\ runs = IdleRuns
    /\ heap = <<>>
    /\ ga = IdleGA
    /\ \E space \in SelSpaces, b \in SelBudgets, pref \in SelPreferences :
          sel = [ phase |-> "ready", param_ranges |-> space, budget |-> b,
                  user_preferences |-> pref, raised |-> FALSE, recommendations |-> <<>> ]

\* recommendations = selector.recommend_algorithm(param_ranges, budget, user_preferences)
SelRecommend ==
    /\ sel.phase = "ready"
    /\ LET r == RecommendAlgorithmCall(sel.param_ranges, sel.budget, sel.user_preferences)
       IN sel' = [ sel EXCEPT !.phase = "done", !.raised = r.raised,
                              !.recommendations = r.recommendations ]
    /\ UNCHANGED <<monitor, ch, gs, eo, call, rz, runs, heap, ga>>

SelectorNext == SelRecommend

SpecSelector == SelectorInit /\ [][SelectorNext]_vars

\* C18: for every non-empty space, budget and user preference,
\* recommend_algorithm returns one entry per strategy, each with a score in
\* [0, 1], ordered from the highest score to the lowest.
C18_RankedRecommendations ==
    sel.phase = "done" =>
       /\ ~sel.raised
       /\ Len(sel.recommendations) = Len(Algorithms)
       /\ \A i \in 1..Len(Algorithms) :
             \E j \in 1..Len(sel.recommendations) :
                sel.recommendations[j].algorithm = Algorithms[i]
       /\ \A j \in 1..Len(sel.recommendations) :
             /\ sel.recommendations[j].score >= 0
             /\ sel.recommendations[j].score <= ScoreDen
       /\ \A j \in 1..(Len(sel.recommendations) - 1) :
             sel.recommendations[j].score >= sel.recommendations[j + 1].score


(***************************************************************************)
(* SpecRuns: the strategy runs of one parallel optimize call, one          *)
(* Objective Evaluator call per step.  Each worker thread executes         *)
(* _run_single_algorithm for one strategy; the steps of the threads        *)
(* interleave freely.  An OptimizationMonitor is an object on the heap,    *)
(* kept with the set of runs that read or wrote it.                        *)
(***************************************************************************)
AlgorithmSet == { Algorithms[i] : i \in 1..Len(Algorithms) }

\* param_ranges of the call: the acquisition target as a float range
RunSpace ==
    << [ name |-> "new_clients_per_half_year",
         min_val |-> Rat(14, 1), max_val |-> Rat(20, 1) ] >>

RunObjective == [ kind |-> "quadratic", peak |-> 16, offset |-> 0, base |-> -1 ]

RunBudgets == { 18, 60 }

\* a monitor that is handed out again instead of being created
SharedMonitor(h) == 1

\* OptimizationMonitor(...): the reference of a new object
OwnMonitor(h) == Len(h) + 1

\* the heap after run a has created, read or written object id, leaving it
\* in state m
Touch(h, id, a, m) ==
    IF id > Len(h) THEN Append(h, [ m |-> m, users |-> { a } ])
    ELSE [ h EXCEPT ![id] = [ m |-> m, users |-> @.users \cup { a } ] ]

NoEval == [ candidate |-> <<>>, evaluated |-> <<>> ]

\* the budget the allocation gives a strategy, -1 when it gives none
AllocatedBudget(allocation, a) ==
    IF \E i \in 1..Len(allocation) : allocation[i].algorithm = a
    THEN allocation[CHOOSE i \in 1..Len(allocation) : allocation[i].algorithm = a].budget
    ELSE -1

\* a point outside the ranges, as cxBlend and mutGaussian produce them
OutsidePoint(space) == [ i \in 1..Len(space) |-> RAdd(space[i].max_val, Rat(1, 1)) ]

\* the points gp_minimize and random.uniform hand to the evaluator: both ends
\* of the ranges
InsidePoints(space) ==
    { [ i \in 1..Len(space) |-> space[i].min_val ],
      [ i \in 1..Len(space) |-> space[i].max_val ] }

\* executor.submit starts the worker threads in the order of the allocation:
\* the strategies submitted before a
SubmittedBefore(a) ==
    { Algorithms[j] : j \in 1..((CHOOSE i \in 1..Len(Algorithms) : Algorithms[i] = a) - 1) }

\* the combinations grid_search_optimizer enumerates for a run with this budget
RunCombos(budget) ==
    Product([ i \in 1..Len(RunSpace) |->
                GridValues(RunSpace[i], EnsemblePointsPerDim(RunSpace, budget)) ])

RunsInit ==
    /\ monitor = IdleMonitor
    /\ ch = IdleHandler
    /\ gs = IdleGrid
    /\ eo = IdleEnsemble
    /\ call = IdleCall
    /\ rz = IdleRealism
    /\ sel = IdleSelector
    /\ heap = <<>>
    /\ ga = IdleGA
    /\ \E total_budget \in RunBudgets :
          LET allocation == AllocateBudget(RecommendAlgorithm(Len(RunSpace), 1, total_budget),
                                           total_budget, "equal")
          IN runs = [ a \in AlgorithmSet |->
                        [ pc |-> IF AllocatedBudget(allocation, a) >= 0
                                 THEN "submitted" ELSE "idle",
                          budget |-> AllocatedBudget(allocation, a),
                          monitor |-> 0, inner |-> 0,
                          i |-> 0, gen |-> 0, evals |-> 0,
                          last |-> NoEval, st |-> <<>> ] ]

\* _run_single_algorithm up to the first evaluation: the run's monitor is
\* created and started; grid_search_optimizer, called without it, creates its
\* own; bayesian_optimizer may raise before it evaluates anything.  Creating
\* a monitor touches nothing another thread can see, so the threads take this
\* step in the order they were submitted.
RunStart(a) ==
    LET r == runs[a]
        outer == OwnMonitor(heap)
        h1 == Touch(heap, outer, a, StartMonitoringOp(NewMonitor(Max2(5, r.budget \div 10))))
        inner == OwnMonitor(h1)
        st0 == GridStart(RunCombos(r.budget))
    IN /\ r.pc = "submitted"
       /\ \A b \in SubmittedBefore(a) : runs[b].pc # "submitted"
       /\ heap' = IF a = "grid_search" THEN Touch(h1, inner, a, st0.monitor) ELSE h1
       /\ runs' = [ runs EXCEPT ![a] =
                      [ r EXCEPT
                          !.pc = IF a = "bayesian_optimization"
                                    /\ BayesMustRaise(FALSE, r.budget)
                                 THEN "failed" ELSE "running",
                          !.monitor = outer,
                          !.inner = IF a = "grid_search" THEN inner ELSE 0,
                          !.st = IF a = "grid_search" THEN st0 ELSE <<>> ] ]
       /\ UNCHANGED <<monitor, ch, gs, eo, call, rz, sel, ga>>

\* one pass of the loop of grid_search_optimizer: repair, evaluate, record on
\* its own monitor, break on its early stop, else report to the wrapper, which
\* records on the run's monitor
GridEvaluate ==
    LET a == "grid_search"
        r == runs[a]
        combos == RunCombos(r.budget)
        st1 == GridIteration(RunSpace, RunObjective, combos, r.i,
                             [ r.st EXCEPT !.monitor = heap[r.inner].m ])
        stops == GridStops(st1.monitor)
        h1 == Touch(heap, r.inner, a, st1.monitor)
        m == h1[r.monitor].m
        recorded == RecordIterationOp(m, ((r.i + 1) * r.budget) \div Len(combos), 0,
                                      m.best_score_so_far)
    IN /\ r.pc = "running"
       /\ r.i < Len(combos)
       /\ heap' = IF stops THEN h1 ELSE Touch(h1, r.monitor, a, recorded)
       /\ runs' = [ runs EXCEPT ![a] =
                      [ r EXCEPT
                          !.i = @ + 1,
                          !.evals = @ + 1,
                          !.last = [ candidate |-> PointAssignment(RunSpace, combos[r.i + 1]),
                                     evaluated |->
                                        PointAssignment(RunSpace,
                                            RepairedPoint(RunSpace, combos[r.i + 1])) ],
                          !.st = IF stops THEN st1
                                 ELSE [ st1 EXCEPT !.progress =
                                          Append(@, [ done |-> r.i + 1,
                                                      total |-> Len(combos) ]) ],
                          !.pc = IF stops \/ r.i + 1 = Len(combos) THEN "done"
                                 ELSE "running" ] ]
       /\ UNCHANGED <<monitor, ch, gs, eo, call, rz, sel, ga>>

\* one call of objective_function by gp_minimize: evaluate the suggested
\* point, report to the wrapper
BayesEvaluate ==
    LET a == "bayesian_optimization"
        r == runs[a]
        n_iterations == Min2(r.budget, 100)
        m == heap[r.monitor].m
    IN /\ r.pc = "running"
       /\ r.i < n_iterations
       /\ \E point \in InsidePoints(RunSpace) :
             runs' = [ runs EXCEPT ![a] =
                         [ r EXCEPT
                             !.i = @ + 1,
                             !.evals = @ + 1,
                             !.last = [ candidate |-> PointAssignment(RunSpace, point),
                                        evaluated |-> PointAssignment(RunSpace, point) ],
                             !.pc = IF r.i + 1 = n_iterations THEN "done"
                                    ELSE "running" ] ]
       /\ heap' = Touch(heap, r.monitor, a,
                        RecordIterationOp(m, r.i + 1, 0, m.best_score_so_far))
       /\ UNCHANGED <<monitor, ch, gs, eo, call, rz, sel, ga>>

\* one call of evaluate by genetic_algorithm_optimizer: an individual of the
\* initial population, or an offspring changed by crossover or mutation; the
\* last individual of the initial population is followed by
\* progress_callback(0) and, when no generation is to run, by the IndexError
\* of hof[0]
GAEvaluate ==
    LET a == "genetic_algorithm"
        r == runs[a]
        population_size == GAPopulationSize(r.budget)
        n_generations == GAGenerations(r.budget)
        m == heap[r.monitor].m
        initial_done == r.gen = 0 /\ r.i + 1 = population_size
    IN /\ r.pc = "running"
       /\ r.i < population_size
       /\ \E point \in IF r.gen = 0 THEN InsidePoints(RunSpace)
                       ELSE InsidePoints(RunSpace) \cup { OutsidePoint(RunSpace) } :
             runs' = [ runs EXCEPT ![a] =
                         [ r EXCEPT
                             !.i = IF initial_done THEN 0 ELSE @ + 1,
                             !.gen = IF initial_done THEN 1 ELSE @,
                             !.evals = @ + 1,
                             !.last = [ candidate |-> PointAssignment(RunSpace, point),
                                        evaluated |-> PointAssignment(RunSpace, point) ],
                             !.pc = IF initial_done /\ n_generations = 0 THEN "failed"
                                    ELSE "running" ] ]
       /\ heap' = IF initial_done
                  THEN Touch(heap, r.monitor, a,
                             RecordIterationOp(m, 0, 0, m.best_score_so_far))
                  ELSE heap
       /\ UNCHANGED <<monitor, ch, gs, eo, call, rz, sel, ga>>

\* the end of a generation: hof.update(pop) and progress_callback(gen / n_generations)
GAEndGeneration ==
    LET a == "genetic_algorithm"
        r == runs[a]
        n_generations == GAGenerations(r.budget)
        m == heap[r.monitor].m
    IN /\ r.pc = "running"
       /\ r.gen >= 1
       /\ runs' = [ runs EXCEPT ![a] =
                      [ r EXCEPT !.i = 0,
                                 !.gen = @ + 1,
                                 !.pc = IF r.gen = n_generations THEN "done"
                                        ELSE "running" ] ]
       /\ heap' = Touch(heap, r.monitor, a,
                        RecordIterationOp(m, r.gen, 0, m.best_score_so_far))
       /\ UNCHANGED <<monitor, ch, gs, eo, call, rz, sel, ga>>

RunsNext ==
    \/ \E a \in AlgorithmSet : RunStart(a)
    \/ GridEvaluate
    \/ BayesEvaluate
    \/ GAEvaluate
    \/ GAEndGeneration

SpecRuns == RunsInit /\ [][RunsNext]_vars

\* C11: every Objective Evaluator call of every strategy is made on the
\* candidate after the Constraint Handler repaired it and the Realism
\* Penalty Module then adjusted it.
C11_RepairedThenAdjusted ==
    \A a \in DOMAIN runs :
       runs[a].last # NoEval =>
          runs[a].last.evaluated =
             ApplyRealisticConstraints(
                ValidateAndRepair(SpaceBoundary(RunSpace), <<>>, runs[a].last.candidate))

\* C12: once the monitor created for a run in _run_single_algorithm says
\* should_stop_early, the run makes no further Objective Evaluator call.
C12_NoEvaluationAfterStop ==
    [][ \A a \in DOMAIN runs :
          (runs[a].pc = "running" /\ ShouldStopEarly(heap[runs[a].monitor].m))
             => runs'[a].evals = runs[a].evals ]_vars

\* the monitors a run holds a reference to
MonitorsOf(a) == { runs[a].monitor, runs[a].inner } \ { 0 }

\* C13: under every interleaving no monitor is read or written by two
\* different strategy runs, and no two runs hold the same monitor.
C13_MonitorsNotShared ==
    /\ \A id \in 1..Len(heap) : Cardinality(heap[id].users) <= 1
    /\ \A a, b \in DOMAIN runs : a # b => MonitorsOf(a) \cap MonitorsOf(b) = {}

\* the three runs are under way at once, each has evaluated and recorded on
\* its monitor, and grid search has recorded on the monitor it created itself
C13_Witness ==
    /\ \A a \in DOMAIN runs : runs[a].pc = "running" /\ runs[a].evals > 0
    /\ DOMAIN runs = AlgorithmSet
    /\ Len(heap) = 4
    /\ \A id \in 1..Len(heap) : heap[id].m.history # <<>>

(***************************************************************************)
(* SpecGA: one call of genetic_algorithm_optimizer.  random.uniform,       *)
(* selTournament, cxBlend and mutGaussian are free choices: the initial    *)
(* individuals score anything, every offspring is a clone of some          *)
(* individual of pop, and any of them may be changed and evaluated anew.   *)
(***************************************************************************)
GAInit ==
    /\ monitor = IdleMonitor
    /\ ch = IdleHandler
    /\ gs = IdleGrid
    /\ eo = IdleEnsemble
    /\ call = IdleCall
    /\ rz = IdleRealism
    /\ sel = IdleSelector
    /\ runs = IdleRuns
    /\ heap = <<>>
    /\ \E population_size \in 1..MaxPopulation, n_generations \in 0..MaxGenerations :
          ga = [ phase |-> "ready", population_size |-> population_size,
                 n_generations |-> n_generations, pop |-> <<>>, hof |-> <<>>,
                 gen |-> 0, evaluated |-> {}, out |-> GAReturned(<<>>) ]

\* pop = toolbox.population(n=population_size); the initial population is
\* evaluated; progress_callback(0)
GAInitialPopulation ==
    /\ ga.phase = "ready"
    /\ \E pop \in [ 1..ga.population_size -> Scores ] :
          ga' = [ ga EXCEPT !.phase = "looping", !.pop = pop,
                            !.evaluated = { pop[i] : i \in 1..Len(pop) } ]
    /\ UNCHANGED <<monitor, ch, gs, eo, call, rz, runs, heap, sel>>

\* one generation: select, clone, mate, mutate, evaluate the changed
\* offspring, pop[:] = offspring, hof.update(pop)
GAGeneration ==
    /\ ga.phase = "looping"
    /\ ga.gen < ga.n_generations
    /\ \E offspring \in [ 1..ga.population_size -> Scores ],
          invalid_ind \in SUBSET (1..ga.population_size) :
          /\ Offspring(ga.pop, offspring, invalid_ind)
          /\ ga' = [ ga EXCEPT !.gen = @ + 1, !.pop = offspring,
                               !.hof = HallOfFameUpdate(@, offspring),
                               !.evaluated = @ \cup { offspring[i] : i \in invalid_ind } ]
    /\ UNCHANGED <<monitor, ch, gs, eo, call, rz, runs, heap, sel>>

\* after the last generation: best_ind = hof[0]; return
GAReturn ==
    /\ ga.phase = "looping"
    /\ ga.gen = ga.n_generations
    /\ ga' = [ ga EXCEPT !.phase = "done", !.out = GAReturned(ga.hof) ]
    /\ UNCHANGED <<monitor, ch, gs, eo, call, rz, runs, heap, sel>>

GANext == GAInitialPopulation \/ GAGeneration \/ GAReturn

SpecGA == GAInit /\ [][GANext]_vars

\* C23: for every population_size >= 1 and n_generations >= 0 the call
\* returns, and its best score is the highest score of all the individuals it
\* evaluated, those of the initial population included.
C23_BestOfAllEvaluated ==
    ga.phase = "done" =>
        /\ ~ga.out.raised
        /\ \A score \in ga.evaluated : score <= ga.out.best_score
        /\ ga.out.best_score \in ga.evaluated

====
